---- MODULE Spec2Model ----
(***************************************************************************)
(* Model of the ingestion pipeline of ultrawebaudit: the Google Drive sync *)
(* route (POST /api/google-drive/sync), the vectorize-drive script, and    *)
(* the three-tier chunking block both of them contain.                     *)
(*                                                                         *)
(* A JavaScript string is modelled as a sequence of one-character strings. *)
(***************************************************************************)
EXTENDS Integers, Sequences, FiniteSets, TLC

\* ------------------------------------------------------------------------
\* Program constants of the chunking block
\* ------------------------------------------------------------------------
MAX_CHUNK_SIZE == 2000

OVERLAP == 200

\* the literal in `chunk.trim().length > 20`
MIN_CHUNK_LENGTH == 20

\* ------------------------------------------------------------------------
\* Bounds of the model
\* ------------------------------------------------------------------------
\* number of vocabulary parts a chunker input text is concatenated from
MaxParts == 3

\* number of files in the Drive folder
MaxFiles == 2

\* number of sync passes in one behaviour
MaxPasses == 2

\* number of matches a query of the index returns
MaxMatches == 2

\* number of parts the "issues" array of a model reply is concatenated from
MaxIssueParts == 2

\* number of URLs in a request for several URLs
MaxListed == 2

\* ------------------------------------------------------------------------
\* JavaScript string primitives used by the chunking block
\* ------------------------------------------------------------------------
NL == "\n"

\* the characters \s matches, among those the model's texts are built from
WhiteSpace == {" ", NL}

\* the character class [.!?]
Terminators == {".", "!", "?"}

Min(a, b) == IF a <= b THEN a ELSE b

\* the least element of a non-empty set of integers
Least(S) == CHOOSE x \in S : \A y \in S : x <= y

\* String.prototype.trim: strip whitespace from both ends
Trim(s) ==
    IF \A k \in 1..Len(s) : s[k] \in WhiteSpace
    THEN << >>
    ELSE LET first == IF s[1] \notin WhiteSpace THEN 1
                      ELSE CHOOSE k \in 1..Len(s) :
                               /\ s[k] \notin WhiteSpace
                               /\ \A m \in 1..(k - 1) : s[m] \in WhiteSpace
             last  == IF s[Len(s)] \notin WhiteSpace THEN Len(s)
                      ELSE CHOOSE k \in 1..Len(s) :
                               /\ s[k] \notin WhiteSpace
                               /\ \A m \in (k + 1)..Len(s) : s[m] \in WhiteSpace
         IN  SubSeq(s, first, last)

\* a slice that loses its last character
SliceShort(s, b, e) == SubSeq(s, b + 1, Min(e, Len(s)) - 1)

\* String.prototype.slice(b, e) for 0 <= b <= e: characters b .. e-1
\* (0-based), the end clamped to the length
Slice(s, b, e) == SubSeq(s, b + 1, Min(e, Len(s)))

\* String.prototype.substring(b, e) for 0 <= b <= e: the same characters
Substring(s, b, e) == SubSeq(s, b + 1, Min(e, Len(s)))

\* last position of the maximal run of characters of class C starting at p
RunEnd(s, p, C) ==
    CHOOSE e \in p..Len(s) :
        /\ s[e] \in C
        /\ (e = Len(s) \/ s[e + 1] \notin C)
        /\ \A k \in p..e : s[k] \in C

\* first positions of the matches of /\n\n+/ : a maximal run of two or
\* more newlines
ParagraphBreaks(s) ==
    {p \in 1..(Len(s) - 1) :
        /\ s[p] = NL
        /\ s[p + 1] = NL
        /\ (p = 1 \/ s[p - 1] # NL)}

ParagraphBreakEnd(s, p) == RunEnd(s, p, {NL})

\* first positions of the matches of /[.!?]+\s+/ : a maximal run of
\* terminators directly followed by whitespace
SentenceBreaks(s) ==
    {p \in 1..(Len(s) - 1) :
        /\ s[p] \in Terminators
        /\ (p = 1 \/ s[p - 1] \notin Terminators)
        /\ LET te == RunEnd(s, p, Terminators)
           IN  te < Len(s) /\ s[te + 1] \in WhiteSpace}

\* the match runs through the whitespace that follows the terminators
SentenceBreakEnd(s, p) == RunEnd(s, RunEnd(s, p, Terminators) + 1, WhiteSpace)

\* String.prototype.split(/\n\n+/): the pieces between the matches, from
\* position `from` on
RECURSIVE SplitParagraphsFrom(_, _, _)
SplitParagraphsFrom(s, breaks, from) ==
    LET rest == {p \in breaks : p >= from}
    IN  IF rest = {}
        THEN << SubSeq(s, from, Len(s)) >>
        ELSE LET p == Least(rest)
             IN  << SubSeq(s, from, p - 1) >>
                 \o SplitParagraphsFrom(s, breaks, ParagraphBreakEnd(s, p) + 1)

SplitParagraphs(s) == SplitParagraphsFrom(s, ParagraphBreaks(s), 1)

\* String.prototype.split(/[.!?]+\s+/)
RECURSIVE SplitSentencesFrom(_, _, _)
SplitSentencesFrom(s, breaks, from) ==
    LET rest == {p \in breaks : p >= from}
    IN  IF rest = {}
        THEN << SubSeq(s, from, Len(s)) >>
        ELSE LET p == Least(rest)
             IN  << SubSeq(s, from, p - 1) >>
                 \o SplitSentencesFrom(s, breaks, SentenceBreakEnd(s, p) + 1)

SplitSentences(s) == SplitSentencesFrom(s, SentenceBreaks(s), 1)

\* the filter with a wrong limit
FilterMinLengthWrongLimit(frags) ==
    SelectSeq(frags, LAMBDA f : Len(Trim(f)) > MAX_CHUNK_SIZE)

\* .filter((chunk) => chunk.trim().length > 20)
FilterMinLength(frags) ==
    SelectSeq(frags, LAMBDA f : Len(Trim(f)) > MIN_CHUNK_LENGTH)

\* ------------------------------------------------------------------------
\* The chunking block
\* ------------------------------------------------------------------------
\* text.split(/\n\n+/).filter(...)
paragraphChunks(text) == FilterMinLength(SplitParagraphs(text))

\* text.split(/[.!?]+\s+/).filter(...)
sentenceChunks(text) == FilterMinLength(SplitSentences(text))

\* windows that advance by the whole window size
RECURSIVE WindowsFromNoOverlap(_, _)
WindowsFromNoOverlap(s, i) ==
    IF i < Len(s)
    THEN LET chunk == Trim(Slice(s, i, i + MAX_CHUNK_SIZE))
         IN  (IF Len(chunk) > MIN_CHUNK_LENGTH THEN << chunk >> ELSE << >>)
             \o WindowsFromNoOverlap(s, i + MAX_CHUNK_SIZE)
    ELSE << >>

\* for (let i = 0; i < s.length; i += MAX_CHUNK_SIZE - OVERLAP) {
\*   const chunk = s.slice(i, i + MAX_CHUNK_SIZE).trim();
\*   if (chunk.length > 20) chunks.push(chunk); }
RECURSIVE WindowsFrom(_, _)
WindowsFrom(s, i) ==
    IF i < Len(s)
    THEN LET chunk == Trim(Slice(s, i, i + MAX_CHUNK_SIZE))
         IN  (IF Len(chunk) > MIN_CHUNK_LENGTH THEN << chunk >> ELSE << >>)
             \o WindowsFrom(s, i + (MAX_CHUNK_SIZE - OVERLAP))
    ELSE << >>

\* a fragment pushed whole whatever its length
FragmentChunksWhole(frag) == << frag >>

\* one fragment of the paragraph or sentence tier: pushed as it is when it
\* fits, windowed otherwise
FragmentChunks(frag) ==
    IF Len(frag) <= MAX_CHUNK_SIZE THEN << frag >> ELSE WindowsFrom(frag, 0)

RECURSIVE SplitLarge(_)
SplitLarge(frags) ==
    IF frags = << >>
    THEN << >>
    ELSE FragmentChunks(Head(frags)) \o SplitLarge(Tail(frags))

\* the fixed-size fallback, over the raw text from offset 0
RECURSIVE FixedFrom(_, _)
FixedFrom(s, i) ==
    IF i < Len(s)
    THEN LET chunk == Trim(Substring(s, i, i + MAX_CHUNK_SIZE))
         IN  (IF Len(chunk) > MIN_CHUNK_LENGTH THEN << chunk >> ELSE << >>)
             \o FixedFrom(s, i + (MAX_CHUNK_SIZE - OVERLAP))
    ELSE << >>

fixedChunks(text) == FixedFrom(text, 0)

\* the tier the nested if/else selects
ChunkTier(text) ==
    IF paragraphChunks(text) # << >> THEN "paragraph"
    ELSE IF sentenceChunks(text) # << >> THEN "sentence"
    ELSE "fixed"

\* the value of `chunks` after the chunking block
ChunkText(text) ==
    IF paragraphChunks(text) # << >> THEN SplitLarge(paragraphChunks(text))
    ELSE IF sentenceChunks(text) # << >> THEN SplitLarge(sentenceChunks(text))
    ELSE fixedChunks(text)

\* ------------------------------------------------------------------------
\* Input texts of the chunker
\* ------------------------------------------------------------------------
Rep(c, n) == [k \in 1..n |-> c]

\* a fragment whose only non-blank characters are its first and last
Sparse(n) == << "a" >> \o Rep(" ", n - 2) \o << "a" >>

\* what the texts are put together from: words below and above the minimum,
\* up to and beyond the maximum, a sparse fragment, and separators
Vocabulary ==
    { Rep("a", 11), Rep("a", 21), Rep("a", 50), Rep("a", 2000), Rep("a", 3000),
      Rep("a", 3610), Sparse(1999),
      << "." >>, << " " >>, << ".", " " >>, << NL, NL >>, << ".", NL, NL >> }

RECURSIVE Concat(_)
Concat(parts) ==
    IF parts = << >> THEN << >> ELSE Head(parts) \o Concat(Tail(parts))

ChunkerTexts ==
    { Concat(parts) : parts \in UNION { [1..n -> Vocabulary] : n \in 0..MaxParts } }

\* ------------------------------------------------------------------------
\* The Drive folder and the collaborators' results
\* ------------------------------------------------------------------------
\* a field the Drive listing left out
Null == "<null>"

\* an optional property that is not set
Undefined == "<undefined>"

OneChunkText == Rep("a", 21)

TwoChunkText == Rep("a", 21) \o << NL, NL >> \o Rep("a", 22)

BlankText == << " ", NL >>

ShortText == Rep("a", 5)

\* what a file of the folder can be: which listing fields it has, whether
\* its download is zero bytes, and the text its bytes extract to
FileKinds ==
    { [hasId |-> TRUE, hasName |-> TRUE, hasMime |-> TRUE, empty |-> FALSE, text |-> t] :
          t \in {OneChunkText, TwoChunkText, BlankText, ShortText} }
    \cup
    { [hasId |-> TRUE,  hasName |-> TRUE,  hasMime |-> TRUE,  empty |-> TRUE,  text |-> << >>],
      [hasId |-> FALSE, hasName |-> TRUE,  hasMime |-> TRUE,  empty |-> FALSE, text |-> OneChunkText],
      [hasId |-> TRUE,  hasName |-> FALSE, hasMime |-> TRUE,  empty |-> FALSE, text |-> OneChunkText],
      [hasId |-> TRUE,  hasName |-> TRUE,  hasMime |-> FALSE, empty |-> FALSE, text |-> OneChunkText] }

\* the k-th file of the folder: Drive ids are unique and stable, names are not
DriveFile(k, kind) ==
    [ id       |-> IF kind.hasId THEN "f" \o ToString(k) ELSE Null,
      name     |-> IF kind.hasName THEN "notes.txt" ELSE Null,
      mimeType |-> IF kind.hasMime THEN "text/plain" ELSE Null,
      empty    |-> kind.empty,
      text     |-> kind.text ]

Folders ==
    { [k \in DOMAIN kinds |-> DriveFile(k, kinds[k])] :
          kinds \in UNION { [1..n -> FileKinds] : n \in 0..MaxFiles } }

LongMessage ==
    "Refresh token expired or revoked. This usually happens if your app is in Testing mode (tokens expire after 7 days)"

\* the first 100 characters of LongMessage
LongMessage100 ==
    "Refresh token expired or revoked. This usually happens if your app is in Testing mode (tokens expire"

\* what a collaborator call can throw: an Error with a message, or a value
\* that is not an Error
Thrown ==
    { [isError |-> TRUE,  message |-> "Request failed with status code 403"],
      [isError |-> TRUE,  message |-> LongMessage],
      [isError |-> FALSE, message |-> ""] }

\* error instanceof Error ? error.message : 'Unknown error'
ErrorMessage(t) == IF t.isError THEN t.message ELSE "Unknown error"

\* errorMessage.substring(0, 100): of the messages of the model only
\* LongMessage is longer than 100 characters
Substring100(m) == IF m = LongMessage THEN LongMessage100 ELSE m

\* `${x}` of a listing field
TemplateText(x) == IF x = Null THEN "undefined" ELSE x

\* the index keeps one vector per id: an upsert replaces the vector that
\* has the id and adds it otherwise
Upsert(ix, vecs) ==
    {v \in ix : \A k \in 1..Len(vecs) : vecs[k].id # v.id}
    \cup {vecs[k] : k \in 1..Len(vecs)}

\* ------------------------------------------------------------------------
\* State
\* ------------------------------------------------------------------------
VARIABLES
    text,               \* the extracted text being chunked
    chunks,             \* `chunks` of the chunking block
    tier,               \* which branch of the chunking block filled `chunks`
    cpc,                \* position in the chunking block run on its own
    folder,             \* the files of the Drive folder
    index,              \* the vectors the Pinecone index holds
    entry,              \* which entry point runs: "route" or "script"
    pc,                 \* the await the running pass is suspended at
    files,              \* `files`: the listing
    i,                  \* the file loop's position (1-based)
    j,                  \* the chunk loop's position (0-based, as in the code)
    vectors,            \* `vectors` of the route
    successfulChunks,   \* `successfulChunks` of the script
    processedFiles,     \* `processedFiles`; `file` is the listing position
                        \* the entry was pushed for (history, not a field)
    totalChunks,        \* `totalChunks`
    failedFileDetails,  \* `failedFileDetails` of the route
    response,           \* what the last pass gave its caller
    log,                \* history: the collaborator calls of the pass so far
    passes,             \* history: one summary per finished pass
    syncs,              \* how many passes the caller runs over the folder
    chatPc,             \* the await the chat request is suspended at
    message,            \* `message` of the chat request body
    matches,            \* `matches` of the chat route
    confidenceScore,    \* `confidenceScore`
    context,            \* `context`: the text handed to the generation
    sources,            \* `sources`
    chatResponse,       \* what the chat request gave its caller
    chatLog,            \* history: the collaborator calls of the chat request
    analyzePc,          \* the await the analyze request is suspended at
    urls,               \* `urls` of the analyze request
    u,                  \* position of `url` in `urls` (1-based)
    outdatedIssues,     \* `outdatedIssues` of the page being analysed
    ultraContext,       \* `ultraContext`
    allIssues,          \* `allIssues` of the page analysed last
    uniqueIssues,       \* `uniqueIssues` of the page analysed last
    overallRiskLevel,   \* `overallRiskLevel` of the page analysed last
    results,            \* `results`
    analyzeResponse,    \* what the analyze request gave its caller
    analyzeLog,         \* history: the collaborator calls of the analyze request
    previewPc,          \* the await the preview request is suspended at
    previewFileId,      \* `fileId` of the preview request body
    filteredMatches,    \* `filteredMatches` of the preview route
    previewResponse,    \* what the preview request gave its caller
    mounted,            \* the effect of the first render of the chat interface ran
    messages,           \* `messages` of the chat interface
    isLoading,          \* `isLoading`
    conversations,      \* `conversations`
    selectedConversation, \* `selectedConversation`
    stored,             \* localStorage item 'ultra_conversations', parsed
    inFlight,           \* the submit that awaits its response, with the
                        \* values its handler closed over
    now,                \* Date.now(), in clicks since the page was opened
    written             \* history: ids of the entries the saves wrote since
                        \* the last new conversation, load or delete

chunkerVars == << text, chunks, tier, cpc >>

chatVars ==
    << chatPc, message, matches, confidenceScore, context, sources,
       chatResponse, chatLog >>

analyzeVars ==
    << analyzePc, urls, u, outdatedIssues, ultraContext, allIssues,
       uniqueIssues, overallRiskLevel, results, analyzeResponse, analyzeLog >>

passVars ==
    << folder, index, entry, pc, files, i, j, vectors, successfulChunks,
       processedFiles, totalChunks, failedFileDetails, response, log, passes,
       syncs >>

previewVars == << previewPc, previewFileId, filteredMatches, previewResponse >>

historyVars ==
    << mounted, messages, isLoading, conversations, selectedConversation,
       stored, inFlight, now, written >>

vars == << chunkerVars, passVars, chatVars, analyzeVars, previewVars, historyVars >>

\* no chat request has been made
ChatIdle ==
    /\ chatPc = "idle"
    /\ message = ""
    /\ matches = << >>
    /\ confidenceScore = 0
    /\ context = ""
    /\ sources = << >>
    /\ chatResponse = [status |-> 0]
    /\ chatLog = << >>

\* no analyze request has been made
AnalyzeIdle ==
    /\ analyzePc = "idle"
    /\ u = 0
    /\ outdatedIssues = << >>
    /\ ultraContext = ""
    /\ allIssues = << >>
    /\ uniqueIssues = << >>
    /\ overallRiskLevel = "none"
    /\ results = << >>
    /\ analyzeResponse = [status |-> 0]
    /\ analyzeLog = << >>

\* no preview request has been made
PreviewIdle ==
    /\ previewPc = "idle"
    /\ previewFileId = ""
    /\ filteredMatches = << >>
    /\ previewResponse = [status |-> 0]

\* the chat interface is not mounted
HistoryIdle ==
    /\ mounted = FALSE
    /\ messages = << >>
    /\ isLoading = FALSE
    /\ conversations = << >>
    /\ selectedConversation = Null
    /\ stored = << >>
    /\ inFlight = << >>
    /\ now = 0
    /\ written = {}

NoResponse ==
    [ kind |-> "none", status |-> 0, totalFiles |-> 0, totalChunks |-> 0,
      processedFiles |-> << >>, failedFileDetails |-> << >> ]

\* the state in which no pass runs and none has run
PassIdle ==
    /\ index = {}
    /\ entry = "none"
    /\ pc = "idle"
    /\ files = << >>
    /\ i = 0
    /\ j = 0
    /\ vectors = << >>
    /\ successfulChunks = 0
    /\ processedFiles = << >>
    /\ totalChunks = 0
    /\ failedFileDetails = << >>
    /\ response = NoResponse
    /\ log = << >>
    /\ passes = << >>

\* ------------------------------------------------------------------------
\* The chunker on its own: one action per branch of the block
\* ------------------------------------------------------------------------
ChunkerInit ==
    /\ text \in ChunkerTexts
    /\ chunks = << >>
    /\ tier = "none"
    /\ cpc = "paragraph"
    /\ folder = << >>
    /\ syncs = 0
    /\ PassIdle
    /\ ChatIdle
    /\ urls = << >>
    /\ AnalyzeIdle
    /\ PreviewIdle
    /\ HistoryIdle

TryParagraphs ==
    /\ cpc = "paragraph"
    /\ LET frags == paragraphChunks(text)
       IN  IF frags # << >>
           THEN /\ chunks' = SplitLarge(frags)
                /\ tier' = "paragraph"
                /\ cpc' = "done"
           ELSE /\ cpc' = "sentence"
                /\ UNCHANGED << chunks, tier >>
    /\ UNCHANGED << text, passVars >>
    /\ UNCHANGED << chatVars, analyzeVars >>
    /\ UNCHANGED << previewVars, historyVars >>

TrySentences ==
    /\ cpc = "sentence"
    /\ LET frags == sentenceChunks(text)
       IN  IF frags # << >>
           THEN /\ chunks' = SplitLarge(frags)
                /\ tier' = "sentence"
                /\ cpc' = "done"
           ELSE /\ cpc' = "fixed"
                /\ UNCHANGED << chunks, tier >>
    /\ UNCHANGED << text, passVars >>
    /\ UNCHANGED << chatVars, analyzeVars >>
    /\ UNCHANGED << previewVars, historyVars >>

FixedFallback ==
    /\ cpc = "fixed"
    /\ chunks' = fixedChunks(text)
    /\ tier' = "fixed"
    /\ cpc' = "done"
    /\ UNCHANGED << text, passVars >>
    /\ UNCHANGED << chatVars, analyzeVars >>
    /\ UNCHANGED << previewVars, historyVars >>

ChunkerNext == TryParagraphs \/ TrySentences \/ FixedFallback

SpecChunker == ChunkerInit /\ [][ChunkerNext]_vars

\* ------------------------------------------------------------------------
\* What both entry points share
\* ------------------------------------------------------------------------
\* one collaborator call: which, for which file (listing position) and chunk
\* (-1: none), whether it returned, and the vector ids an upsert submitted
Call(op, file, chunk, ok, ids) ==
    [op |-> op, file |-> file, chunk |-> chunk, ok |-> ok, ids |-> ids]

CallsFor(lg, f) == {k \in 1..Len(lg) : lg[k].file = f}

\* the files of the listing every call for which returned
CleanFiles(lg, fs) ==
    {f \in 1..Len(fs) : CallsFor(lg, f) # {} /\ \A k \in CallsFor(lg, f) : lg[k].ok}

\* the vector ids the pass wrote for file f
WrittenIds(lg, f) ==
    UNION {lg[k].ids : k \in {m \in CallsFor(lg, f) : lg[m].op = "upsert" /\ lg[m].ok}}

\* the vectors of the index that carry the id of file f
IndexedFor(ix, fs, f) == {v \in ix : v.fileId = fs[f].id}

ChunksReported(resp, f) ==
    {resp.processedFiles[k].chunks :
         k \in {m \in 1..Len(resp.processedFiles) : resp.processedFiles[m].file = f}}

\* what is kept of a finished pass: for the files every call of which
\* returned, the ids written, the chunk counts reported and the number of
\* vectors the index then held for the file
PassSummary(e, resp, lg, ix, fs) ==
    [ entry   |-> e,
      kind    |-> resp.kind,
      clean   |-> CleanFiles(lg, fs),
      written |-> [f \in CleanFiles(lg, fs) |-> WrittenIds(lg, f)],
      counts  |-> [f \in CleanFiles(lg, fs) |-> ChunksReported(resp, f)],
      indexed |-> [f \in CleanFiles(lg, fs) |-> Cardinality(IndexedFor(ix, fs, f))] ]

\* the pass returns to its caller
Finished(e, resp, lg, ix, fs) ==
    /\ pc' = "idle"
    /\ response' = resp
    /\ passes' = Append(passes, PassSummary(e, resp, lg, ix, fs))

VectorIds(vecs) == {vecs[k].id : k \in 1..Len(vecs)}

\* the locals of a pass before its first statement
FreshPass ==
    /\ files' = << >>
    /\ i' = 0
    /\ j' = 0
    /\ vectors' = << >>
    /\ successfulChunks' = 0
    /\ processedFiles' = << >>
    /\ totalChunks' = 0
    /\ failedFileDetails' = << >>
    /\ log' = << >>
    /\ text' = << >>
    /\ chunks' = << >>
    /\ tier' = "none"

NoFolderResponse(status) == [NoResponse EXCEPT !.kind = "nofolder", !.status = status]

FatalResponse(status) == [NoResponse EXCEPT !.kind = "error", !.status = status]

\* ------------------------------------------------------------------------
\* The sync route: POST of /api/google-drive/sync
\* ------------------------------------------------------------------------
\* if (!file.id || !file.name) continue;
RouteSkips(file) == file.id = Null \/ file.name = Null

\* the next position from k on that the loop does not skip, Len(fs) + 1 if
\* there is none
RECURSIVE RouteNextFile(_, _)
RouteNextFile(fs, k) ==
    IF k > Len(fs) THEN k
    ELSE IF RouteSkips(fs[k]) THEN RouteNextFile(fs, k + 1)
    ELSE k

\* NextResponse.json({ success: true, message, totalFiles, totalChunks, ... })
RouteReport(pf, tc, ffd) ==
    [ kind |-> "report", status |-> 200, totalFiles |-> Len(pf), totalChunks |-> tc,
      processedFiles |-> pf, failedFileDetails |-> ffd ]

\* the loop goes on with position k: the next await is the fetch of the next
\* file that is not skipped; after the last file the report is returned
RouteContinue(fs, k, pf, tc, ffd, lg, ix) ==
    /\ processedFiles' = pf
    /\ totalChunks' = tc
    /\ failedFileDetails' = ffd
    /\ log' = lg
    /\ index' = ix
    /\ i' = RouteNextFile(fs, k)
    /\ IF RouteNextFile(fs, k) <= Len(fs)
       THEN /\ pc' = "fetch"
            /\ UNCHANGED << response, passes >>
       ELSE Finished("route", RouteReport(pf, tc, ffd), lg, ix, fs)

\* processedFiles.push({ name: file.name, chunks: 0, error }) of an early exit
RouteZeroEntry(k, file, error) ==
    [file |-> k, name |-> file.name, chunks |-> 0, error |-> error]

\* the entry the catch block pushes
RouteCatchEntry(k, file, t) ==
    [file |-> k, name |-> file.name, chunks |-> 0, error |-> ErrorMessage(t)]

\* an entry that counts one vector less than were upserted
RouteFileEntryLessOne(k, file, vecs) ==
    [file |-> k, name |-> file.name, chunks |-> Len(vecs) - 1, error |-> Undefined]

\* processedFiles.push({ name: file.name, chunks: vectors.length })
RouteFileEntry(k, file, vecs) ==
    [file |-> k, name |-> file.name, chunks |-> Len(vecs), error |-> Undefined]

\* totalChunks += vectors.length
RouteTotal(tc, vecs) == tc + Len(vecs)

\* an id that also names the run that wrote it
RouteVectorIdPerRun(file, chunkIndex) ==
    TemplateText(file.id) \o "-run-" \o ToString(Len(passes))
        \o "-chunk-" \o ToString(chunkIndex)

\* id: `${file.id}-chunk-${chunkIndex}`
RouteVectorId(file, chunkIndex) ==
    TemplateText(file.id) \o "-chunk-" \o ToString(chunkIndex)

RouteVector(file, chunkIndex, chunk) ==
    [ id         |-> RouteVectorId(file, chunkIndex),
      fileId     |-> file.id,
      title      |-> file.name,
      text       |-> chunk,
      chunkIndex |-> chunkIndex,
      mimeType   |-> file.mimeType ]

\* catch (error) of the file loop: the file is recorded, the loop goes on
RouteCatch(t, lg) ==
    RouteContinue(files, i + 1,
                  Append(processedFiles, RouteCatchEntry(i, files[i], t)),
                  totalChunks,
                  Append(failedFileDetails,
                         [name |-> files[i].name, error |-> ErrorMessage(t)]),
                  lg, index)

RouteStart ==
    /\ pc = "idle"
    /\ Len(passes) < syncs
    /\ entry' = "route"
    /\ FreshPass
    /\ \E hasFolderId \in BOOLEAN :
          IF hasFolderId
          THEN /\ pc' = "list"
               /\ response' = NoResponse
               /\ UNCHANGED passes
          ELSE Finished("route", NoFolderResponse(400), << >>, index, << >>)
    /\ UNCHANGED << cpc, folder, index, syncs >>
    /\ UNCHANGED << chatVars, analyzeVars >>
    /\ UNCHANGED << previewVars, historyVars >>

\* await listFilesInFolder(folderId)
RouteList ==
    /\ entry = "route"
    /\ pc = "list"
    /\ \/ /\ Finished("route", FatalResponse(500),
                      Append(log, Call("list", 0, -1, FALSE, {})), index, << >>)
          /\ log' = Append(log, Call("list", 0, -1, FALSE, {}))
          /\ UNCHANGED << files, i, processedFiles, totalChunks, failedFileDetails, index >>
       \/ /\ files' = folder
          /\ IF Len(folder) = 0
             THEN /\ Finished("route", RouteReport(<< >>, 0, << >>),
                              Append(log, Call("list", 0, -1, TRUE, {})), index, folder)
                  /\ log' = Append(log, Call("list", 0, -1, TRUE, {}))
                  /\ UNCHANGED << i, processedFiles, totalChunks, failedFileDetails, index >>
             ELSE RouteContinue(folder, 1, << >>, 0, << >>,
                                Append(log, Call("list", 0, -1, TRUE, {})), index)
    /\ UNCHANGED << chunkerVars, folder, entry, j, vectors, successfulChunks, syncs >>
    /\ UNCHANGED << chatVars, analyzeVars >>
    /\ UNCHANGED << previewVars, historyVars >>

\* await getFileContent(file.id, ...), then the zero-byte check
RouteFetch ==
    /\ entry = "route"
    /\ pc = "fetch"
    /\ \/ /\ \E t \in Thrown : RouteCatch(t, Append(log, Call("fetch", i, -1, FALSE, {})))
          /\ UNCHANGED << chunkerVars, folder, entry, files, j, vectors, successfulChunks, syncs >>
       \/ /\ files[i].empty
          /\ RouteContinue(files, i + 1,
                           Append(processedFiles,
                                  RouteZeroEntry(i, files[i], "File is empty (0 bytes)")),
                           totalChunks, failedFileDetails,
                           Append(log, Call("fetch", i, -1, TRUE, {})), index)
          /\ UNCHANGED << chunkerVars, folder, entry, files, j, vectors, successfulChunks, syncs >>
       \/ /\ ~files[i].empty
          /\ pc' = "extract"
          /\ log' = Append(log, Call("fetch", i, -1, TRUE, {}))
          /\ UNCHANGED << chunkerVars, folder, index, entry, files, i, j, vectors,
                          successfulChunks, processedFiles, totalChunks,
                          failedFileDetails, response, passes, syncs >>
    /\ UNCHANGED << chatVars, analyzeVars >>
    /\ UNCHANGED << previewVars, historyVars >>

\* await extractTextFromDocument(buffer, ...), the empty-text check, the
\* chunking block and the zero-chunks check
RouteExtract ==
    /\ entry = "route"
    /\ pc = "extract"
    /\ \/ /\ \E t \in Thrown : RouteCatch(t, Append(log, Call("extract", i, -1, FALSE, {})))
          /\ UNCHANGED << chunkerVars, folder, entry, files, j, vectors, successfulChunks, syncs >>
       \/ /\ text' = files[i].text
          /\ IF Len(Trim(files[i].text)) = 0
             THEN /\ RouteContinue(files, i + 1,
                                   Append(processedFiles,
                                          RouteZeroEntry(i, files[i], "No text extracted")),
                                   totalChunks, failedFileDetails,
                                   Append(log, Call("extract", i, -1, TRUE, {})), index)
                  /\ UNCHANGED << chunks, tier, j, vectors >>
             ELSE /\ chunks' = ChunkText(files[i].text)
                  /\ tier' = ChunkTier(files[i].text)
                  /\ IF ChunkText(files[i].text) = << >>
                     THEN /\ RouteContinue(files, i + 1,
                                           Append(processedFiles,
                                                  RouteZeroEntry(i, files[i],
                                                                 "No valid chunks created")),
                                           totalChunks, failedFileDetails,
                                           Append(log, Call("extract", i, -1, TRUE, {})), index)
                          /\ UNCHANGED << j, vectors >>
                     ELSE /\ pc' = "embed"
                          /\ j' = 0
                          /\ vectors' = << >>
                          /\ log' = Append(log, Call("extract", i, -1, TRUE, {}))
                          /\ UNCHANGED << index, i, processedFiles, totalChunks,
                                          failedFileDetails, response, passes >>
          /\ UNCHANGED << cpc, folder, entry, files, successfulChunks, syncs >>
    /\ UNCHANGED << chatVars, analyzeVars >>
    /\ UNCHANGED << previewVars, historyVars >>

\* await getEmbedding(chunk) and vectors.push(...)
RouteEmbed ==
    /\ entry = "route"
    /\ pc = "embed"
    /\ \/ /\ \E t \in Thrown : RouteCatch(t, Append(log, Call("embed", i, j, FALSE, {})))
          /\ UNCHANGED << j, vectors >>
       \/ /\ vectors' = Append(vectors, RouteVector(files[i], j, chunks[j + 1]))
          /\ j' = j + 1
          /\ pc' = IF j + 1 < Len(chunks) THEN "embed" ELSE "upsert"
          /\ log' = Append(log, Call("embed", i, j, TRUE, {}))
          /\ UNCHANGED << index, i, processedFiles, totalChunks, failedFileDetails,
                          response, passes >>
    /\ UNCHANGED << chunkerVars, folder, entry, files, successfulChunks, syncs >>
    /\ UNCHANGED << chatVars, analyzeVars >>
    /\ UNCHANGED << previewVars, historyVars >>

\* await upsertToPinecone(vectors), then the count and the entry
RouteUpsert ==
    /\ entry = "route"
    /\ pc = "upsert"
    /\ \/ \E t \in Thrown : RouteCatch(t, Append(log, Call("upsert", i, -1, FALSE, VectorIds(vectors))))
       \/ RouteContinue(files, i + 1,
                        Append(processedFiles, RouteFileEntry(i, files[i], vectors)),
                        RouteTotal(totalChunks, vectors), failedFileDetails,
                        Append(log, Call("upsert", i, -1, TRUE, VectorIds(vectors))),
                        Upsert(index, vectors))
    /\ UNCHANGED << chunkerVars, folder, entry, files, j, vectors, successfulChunks, syncs >>
    /\ UNCHANGED << chatVars, analyzeVars >>
    /\ UNCHANGED << previewVars, historyVars >>

RouteNext == RouteStart \/ RouteList \/ RouteFetch \/ RouteExtract \/ RouteEmbed \/ RouteUpsert

\* ------------------------------------------------------------------------
\* The script: vectorizeDriveFiles of scripts/vectorize-drive.ts
\* ------------------------------------------------------------------------
\* file.name || 'Unknown'
ScriptName(file) == IF file.name = Null THEN "Unknown" ELSE file.name

\* the console summary and a normal exit
ScriptSummary(fs, pf, tc) ==
    [ kind |-> "report", status |-> 0, totalFiles |-> Len(fs), totalChunks |-> tc,
      processedFiles |-> pf, failedFileDetails |-> << >> ]

\* `return` after 'No files found in the folder.': no summary is printed
ScriptNoFiles == [NoResponse EXCEPT !.kind = "nofiles"]

\* the loop goes on with position k; after the last file the summary
ScriptContinue(fs, k, pf, tc, lg, ix) ==
    /\ processedFiles' = pf
    /\ totalChunks' = tc
    /\ log' = lg
    /\ index' = ix
    /\ i' = k
    /\ IF k <= Len(fs)
       THEN /\ pc' = "fetch"
            /\ UNCHANGED << response, passes >>
       ELSE Finished("script", ScriptSummary(fs, pf, tc), lg, ix, fs)

\* processedFiles.push({ name: file.name || 'Unknown', chunks: 0, error })
ScriptZeroEntry(k, file, error) ==
    [file |-> k, name |-> ScriptName(file), chunks |-> 0, error |-> error]

\* the entry the catch block of the file loop pushes
ScriptCatchEntry(k, file, t) ==
    [ file |-> k, name |-> ScriptName(file), chunks |-> 0,
      error |-> Substring100(ErrorMessage(t)) ]

\* processedFiles.push({ name: file.name || 'Unknown', chunks: successfulChunks })
ScriptFileEntry(k, file, sc) ==
    [file |-> k, name |-> ScriptName(file), chunks |-> sc, error |-> Undefined]

\* totalChunks += chunks.length
ScriptTotalAllChunks(tc, sc) == tc + Len(chunks)

\* totalChunks += successfulChunks
ScriptTotal(tc, sc) == tc + sc

\* id: `${file.id}_chunk_${j}`
ScriptVectorId(file, chunkIndex) ==
    TemplateText(file.id) \o "_chunk_" \o ToString(chunkIndex)

ScriptVector(file, chunkIndex, chunk) ==
    [ id         |-> ScriptVectorId(file, chunkIndex),
      fileId     |-> file.id,
      title      |-> IF file.name = Null THEN "Untitled" ELSE file.name,
      text       |-> chunk,
      chunkIndex |-> chunkIndex,
      mimeType   |-> file.mimeType ]

\* a catch block that gives up: process.exit(1)
ScriptCatchExit(t, lg) ==
    /\ Finished("script", FatalResponse(1), lg, index, files)
    /\ log' = lg
    /\ UNCHANGED << processedFiles, totalChunks, index, i >>

\* catch (error) of the file loop
ScriptCatch(t, lg) ==
    ScriptContinue(files, i + 1,
                   Append(processedFiles, ScriptCatchEntry(i, files[i], t)),
                   totalChunks, lg, index)

\* the chunk loop goes on after chunk j, with sc chunks uploaded so far;
\* after the last chunk the file is recorded and the file loop goes on
ScriptNextChunk(sc, lg, ix) ==
    IF j + 1 < Len(chunks)
    THEN /\ j' = j + 1
         /\ pc' = "embed"
         /\ successfulChunks' = sc
         /\ log' = lg
         /\ index' = ix
         /\ UNCHANGED << i, processedFiles, totalChunks, response, passes >>
    ELSE /\ successfulChunks' = sc
         /\ UNCHANGED j
         /\ ScriptContinue(files, i + 1,
                           Append(processedFiles, ScriptFileEntry(i, files[i], sc)),
                           ScriptTotal(totalChunks, sc), lg, ix)

\* a chunk loop that stops at the first failed chunk
ScriptChunkCatchBreak(lg) ==
    /\ UNCHANGED << j, successfulChunks >>
    /\ ScriptContinue(files, i + 1,
                      Append(processedFiles,
                             ScriptFileEntry(i, files[i], successfulChunks)),
                      ScriptTotal(totalChunks, successfulChunks), lg, index)

\* catch (chunkError): the error is logged and the chunk loop goes on
ScriptChunkCatch(lg) == ScriptNextChunk(successfulChunks, lg, index)

ScriptStart ==
    /\ pc = "idle"
    /\ Len(passes) < syncs
    /\ entry' = "script"
    /\ FreshPass
    /\ \E hasFolderId \in BOOLEAN :
          IF hasFolderId
          THEN /\ pc' = "list"
               /\ response' = NoResponse
               /\ UNCHANGED passes
          ELSE Finished("script", NoFolderResponse(1), << >>, index, << >>)
    /\ UNCHANGED << cpc, folder, index, syncs >>
    /\ UNCHANGED << chatVars, analyzeVars >>
    /\ UNCHANGED << previewVars, historyVars >>

\* await listFilesInFolder(folderId)
ScriptList ==
    /\ entry = "script"
    /\ pc = "list"
    /\ \/ /\ Finished("script", FatalResponse(1),
                      Append(log, Call("list", 0, -1, FALSE, {})), index, << >>)
          /\ log' = Append(log, Call("list", 0, -1, FALSE, {}))
          /\ UNCHANGED << files, i, processedFiles, totalChunks, index >>
       \/ /\ files' = folder
          /\ IF Len(folder) = 0
             THEN /\ Finished("script", ScriptNoFiles,
                              Append(log, Call("list", 0, -1, TRUE, {})), index, folder)
                  /\ log' = Append(log, Call("list", 0, -1, TRUE, {}))
                  /\ UNCHANGED << i, processedFiles, totalChunks, index >>
             ELSE ScriptContinue(folder, 1, << >>, 0,
                                 Append(log, Call("list", 0, -1, TRUE, {})), index)
    /\ UNCHANGED << chunkerVars, folder, entry, j, vectors, successfulChunks,
                    failedFileDetails, syncs >>
    /\ UNCHANGED << chatVars, analyzeVars >>
    /\ UNCHANGED << previewVars, historyVars >>

\* await getFileContent(file.id!, file.mimeType), then the zero-byte check
ScriptFetch ==
    /\ entry = "script"
    /\ pc = "fetch"
    /\ \/ /\ \E t \in Thrown : ScriptCatch(t, Append(log, Call("fetch", i, -1, FALSE, {})))
          /\ UNCHANGED << chunkerVars, j, successfulChunks >>
       \/ /\ files[i].empty
          /\ ScriptContinue(files, i + 1,
                            Append(processedFiles,
                                   ScriptZeroEntry(i, files[i], "Empty file")),
                            totalChunks,
                            Append(log, Call("fetch", i, -1, TRUE, {})), index)
          /\ UNCHANGED << chunkerVars, j, successfulChunks >>
       \/ /\ ~files[i].empty
          /\ pc' = "extract"
          /\ log' = Append(log, Call("fetch", i, -1, TRUE, {}))
          /\ UNCHANGED << chunkerVars, index, i, j, successfulChunks, processedFiles,
                          totalChunks, response, passes >>
    /\ UNCHANGED << folder, entry, files, vectors, failedFileDetails, syncs >>
    /\ UNCHANGED << chatVars, analyzeVars >>
    /\ UNCHANGED << previewVars, historyVars >>

\* await extractTextFromDocument(buffer, ...), the empty-text check, the
\* chunking block and the zero-chunks check
ScriptExtract ==
    /\ entry = "script"
    /\ pc = "extract"
    /\ \/ /\ \E t \in Thrown : ScriptCatch(t, Append(log, Call("extract", i, -1, FALSE, {})))
          /\ UNCHANGED << chunkerVars, j, successfulChunks >>
       \/ /\ text' = files[i].text
          /\ IF Len(Trim(files[i].text)) = 0
             THEN /\ ScriptContinue(files, i + 1,
                                    Append(processedFiles,
                                           ScriptZeroEntry(i, files[i], "No text extracted")),
                                    totalChunks,
                                    Append(log, Call("extract", i, -1, TRUE, {})), index)
                  /\ UNCHANGED << chunks, tier, j, successfulChunks >>
             ELSE /\ chunks' = ChunkText(files[i].text)
                  /\ tier' = ChunkTier(files[i].text)
                  /\ IF ChunkText(files[i].text) = << >>
                     THEN /\ ScriptContinue(files, i + 1,
                                            Append(processedFiles,
                                                   ScriptZeroEntry(i, files[i],
                                                                   "No valid chunks")),
                                            totalChunks,
                                            Append(log, Call("extract", i, -1, TRUE, {})),
                                            index)
                          /\ UNCHANGED << j, successfulChunks >>
                     ELSE /\ pc' = "embed"
                          /\ j' = 0
                          /\ successfulChunks' = 0
                          /\ log' = Append(log, Call("extract", i, -1, TRUE, {}))
                          /\ UNCHANGED << index, i, processedFiles, totalChunks,
                                          response, passes >>
          /\ UNCHANGED cpc
    /\ UNCHANGED << folder, entry, files, vectors, failedFileDetails, syncs >>
    /\ UNCHANGED << chatVars, analyzeVars >>
    /\ UNCHANGED << previewVars, historyVars >>

\* await getEmbedding(chunk), inside the try of the chunk loop
ScriptEmbed ==
    /\ entry = "script"
    /\ pc = "embed"
    /\ \/ ScriptChunkCatch(Append(log, Call("embed", i, j, FALSE, {})))
       \/ /\ pc' = "upsert"
          /\ log' = Append(log, Call("embed", i, j, TRUE, {}))
          /\ UNCHANGED << index, i, j, successfulChunks, processedFiles, totalChunks,
                          response, passes >>
    /\ UNCHANGED << chunkerVars, folder, entry, files, vectors, failedFileDetails, syncs >>
    /\ UNCHANGED << chatVars, analyzeVars >>
    /\ UNCHANGED << previewVars, historyVars >>

\* await upsertToPinecone([{ id, values, metadata }]) and successfulChunks++
ScriptUpsert ==
    /\ entry = "script"
    /\ pc = "upsert"
    /\ LET vecs == << ScriptVector(files[i], j, chunks[j + 1]) >>
       IN  \/ ScriptChunkCatch(Append(log, Call("upsert", i, j, FALSE, VectorIds(vecs))))
           \/ ScriptNextChunk(successfulChunks + 1,
                              Append(log, Call("upsert", i, j, TRUE, VectorIds(vecs))),
                              Upsert(index, vecs))
    /\ UNCHANGED << chunkerVars, folder, entry, files, vectors, failedFileDetails, syncs >>
    /\ UNCHANGED << chatVars, analyzeVars >>
    /\ UNCHANGED << previewVars, historyVars >>

ScriptNext ==
    ScriptStart \/ ScriptList \/ ScriptFetch \/ ScriptExtract \/ ScriptEmbed \/ ScriptUpsert

\* ------------------------------------------------------------------------
\* The sync passes over one folder
\* ------------------------------------------------------------------------
\* one sync pass over a folder
Init ==
    /\ folder \in Folders
    /\ syncs = 1
    /\ text = << >>
    /\ chunks = << >>
    /\ tier = "none"
    /\ cpc = "off"
    /\ PassIdle
    /\ ChatIdle
    /\ urls = << >>
    /\ AnalyzeIdle
    /\ PreviewIdle
    /\ HistoryIdle

Next == RouteNext \/ ScriptNext

Spec == Init /\ [][Next]_vars

\* repeated sync passes over a folder of one file that does not change
ResyncInit ==
    /\ folder \in {f \in Folders : Len(f) = 1}
    /\ syncs = MaxPasses
    /\ text = << >>
    /\ chunks = << >>
    /\ tier = "none"
    /\ cpc = "off"
    /\ PassIdle
    /\ ChatIdle
    /\ urls = << >>
    /\ AnalyzeIdle
    /\ PreviewIdle
    /\ HistoryIdle

SpecResync == ResyncInit /\ [][Next]_vars

\* ------------------------------------------------------------------------
\* The time limit of the host
\* ------------------------------------------------------------------------
\* The route takes no deadline and has no timer.  The only limit is the
\* host's limit on the duration of a function (maxDuration): when it is
\* reached the invocation ends at the await it is in and the caller gets
\* the host's answer, not one the route wrote.
TimeoutResponse == [NoResponse EXCEPT !.kind = "timeout", !.status = 504]

Deadline ==
    /\ entry = "route"
    /\ pc \in { "list", "fetch", "extract", "embed", "upsert" }
    /\ Finished("route", TimeoutResponse, log, index, files)
    /\ UNCHANGED << chunkerVars, folder, index, entry, files, i, j, vectors,
                    successfulChunks, processedFiles, totalChunks,
                    failedFileDetails, log, syncs >>
    /\ UNCHANGED << chatVars, analyzeVars >>
    /\ UNCHANGED << previewVars, historyVars >>

DeadlineNext == RouteNext \/ Deadline

SpecDeadline == Init /\ [][DeadlineNext]_vars

\* ------------------------------------------------------------------------
\* The chat route: POST of /api/chat
\* ------------------------------------------------------------------------
\* An optional number is the empty set when it is not set and {n} when it
\* is n.
\* x || 0 of an optional number
OrZero(x) == IF x = {} THEN 0 ELSE CHOOSE n \in x : TRUE

\* x || d of an optional string
OrElse(x, d) == IF x \in {Undefined, Null, ""} THEN d ELSE x

\* what one match of the index can look like: with or without a score, with
\* metadata, with metadata that lacks title and text, or without metadata
MatchKinds ==
    { [score |-> sc, hasMetadata |-> md, hasText |-> tx] :
          sc \in {{92}, {35}, {-20}}, md \in BOOLEAN, tx \in BOOLEAN }
    \cup { [score |-> {},  hasMetadata |-> TRUE, hasText |-> TRUE],
           [score |-> {0}, hasMetadata |-> TRUE, hasText |-> TRUE] }

\* the k-th match of a query result
IndexMatch(k, kind) ==
    [ id          |-> "f" \o ToString(k) \o "-chunk-0",
      score       |-> kind.score,
      hasMetadata |-> kind.hasMetadata,
      metadata    |->
          [ title      |-> IF kind.hasMetadata /\ kind.hasText
                           THEN "Guide " \o ToString(k) ELSE Undefined,
            text       |-> IF kind.hasMetadata /\ kind.hasText
                           THEN "Text of chunk " \o ToString(k) ELSE Undefined,
            fileId     |-> IF kind.hasMetadata THEN "f" \o ToString(k) ELSE Undefined,
            chunkIndex |-> IF kind.hasMetadata THEN {k - 1} ELSE {} ] ]

\* what queryPinecone can return: up to MaxMatches matches in the order the
\* index ranks them
MatchLists ==
    { [k \in DOMAIN kinds |-> IndexMatch(k, kinds[k])] :
          kinds \in UNION { [1..n -> MatchKinds] : n \in 0..MaxMatches } }

\* the highest score among the matches
ConfidenceScoreMax(ms) ==
    IF Len(ms) > 0
    THEN CHOOSE x \in {OrZero(ms[k].score) : k \in 1..Len(ms)} :
             \A k \in 1..Len(ms) : x >= OrZero(ms[k].score)
    ELSE 0

\* matches.length > 0 ? matches[0].score || 0 : 0
ConfidenceScore(ms) == IF Len(ms) > 0 THEN OrZero(ms[1].score) ELSE 0

\* `[${metadata.title || 'Document'}]: ${metadata.text || match.id}`
ContextEntry(match) ==
    "[" \o OrElse(match.metadata.title, "Document") \o "]: "
        \o OrElse(match.metadata.text, match.id)

\* Array.prototype.join(sep) of a list of strings
RECURSIVE Join(_, _)
Join(parts, sep) ==
    IF parts = << >> THEN ""
    ELSE IF Len(parts) = 1 THEN parts[1]
    ELSE parts[1] \o sep \o Join(Tail(parts), sep)

\* matches.map(...).join('\n\n')
ChatContext(ms) == Join([k \in 1..Len(ms) |-> ContextEntry(ms[k])], "\n\n")

\* one element of matches.map((match) => ({ id, title, text, score, ... }))
SourceEntry(match) ==
    [ id         |-> match.id,
      title      |-> OrElse(match.metadata.title, "Untitled Document"),
      text       |-> OrElse(match.metadata.text, ""),
      score      |-> OrZero(match.score),
      fileId     |-> OrElse(match.metadata.fileId, ""),
      chunkIndex |-> OrZero(match.metadata.chunkIndex) ]

\* sources listed by descending score
RECURSIVE ChatSourcesByScore(_)
ChatSourcesByScore(ms) ==
    IF ms = << >> THEN << >>
    ELSE LET top == CHOOSE k \in 1..Len(ms) :
                        \A m \in 1..Len(ms) : OrZero(ms[k].score) >= OrZero(ms[m].score)
         IN  << SourceEntry(ms[top]) >>
             \o ChatSourcesByScore([m \in 1..(Len(ms) - 1) |->
                                       IF m < top THEN ms[m] ELSE ms[m + 1]])

\* const sources = matches.map(...)
ChatSources(ms) == [k \in 1..Len(ms) |-> SourceEntry(ms[k])]

\* what chatCompletion can answer
RawAnswers == {"Open the gradebook.", "**Open** the gradebook."}

\* the replace calls that strip the markdown, and the trim: of the answers
\* of the model only the second carries markdown
StripMarkdown(r) == IF r = "**Open** the gradebook." THEN "Open the gradebook." ELSE r

\* what a collaborator of the chat route can throw
ChatThrown ==
    Thrown \cup { [isError |-> TRUE, message |-> "OPENAI_API_KEY must be set"],
                  [isError |-> TRUE, message |-> "OpenAI API error: 429"] }

\* errorMessage of the catch block
ChatErrorMessage(t) ==
    IF ~t.isError THEN "Failed to process chat message"
    ELSE IF t.message = "OPENAI_API_KEY must be set"
         THEN "Configuration error: Missing API keys. Please check your environment variables (OPENAI_API_KEY is required, PINECONE_API_KEY is optional but recommended)."
    ELSE IF t.message = "OpenAI API error: 429" THEN "OpenAI error: " \o t.message
    ELSE t.message

\* NextResponse.json({ error: errorMessage }, { status })
ChatError(status, error) == [status |-> status, error |-> error]

\* NextResponse.json({ response, contextUsed, sources, confidenceScore })
ChatAnswer(answer, ms, srcs, score) ==
    [ status          |-> 200,
      response        |-> answer,
      contextUsed     |-> Len(ms) > 0,
      sources         |-> srcs,
      confidenceScore |-> score ]

ChatCall(op, ok, ctx) == [op |-> op, ok |-> ok, context |-> ctx]

\* the catch block of the route
ChatCatch(t, lg) ==
    /\ chatPc' = "done"
    /\ chatResponse' = ChatError(500, ChatErrorMessage(t))
    /\ chatLog' = lg

\* await request.json() and the check of `message`
ChatStart ==
    /\ chatPc = "idle"
    /\ \E msg \in {"", "How do I grade?"} :
          /\ message' = msg
          /\ IF msg = ""
             THEN /\ chatPc' = "done"
                  /\ chatResponse' = ChatError(400, "Message is required")
             ELSE /\ chatPc' = "embed"
                  /\ UNCHANGED chatResponse
    /\ UNCHANGED << matches, confidenceScore, context, sources, chatLog >>
    /\ UNCHANGED << chunkerVars, passVars, analyzeVars >>
    /\ UNCHANGED << previewVars, historyVars >>

\* an embedding failure that is swallowed: the route goes on to the query
ChatEmbedSwallow ==
    /\ chatPc = "embed"
    /\ \E ok \in BOOLEAN :
          /\ chatPc' = "query"
          /\ chatLog' = Append(chatLog, ChatCall("embed", ok, ""))
          /\ UNCHANGED chatResponse
    /\ UNCHANGED << message, matches, confidenceScore, context, sources >>
    /\ UNCHANGED << chunkerVars, passVars, analyzeVars >>
    /\ UNCHANGED << previewVars, historyVars >>

\* await getEmbedding(message)
ChatEmbed ==
    /\ chatPc = "embed"
    /\ \/ \E t \in ChatThrown : ChatCatch(t, Append(chatLog, ChatCall("embed", FALSE, "")))
       \/ /\ chatPc' = "query"
          /\ chatLog' = Append(chatLog, ChatCall("embed", TRUE, ""))
          /\ UNCHANGED chatResponse
    /\ UNCHANGED << message, matches, confidenceScore, context, sources >>
    /\ UNCHANGED << chunkerVars, passVars, analyzeVars >>
    /\ UNCHANGED << previewVars, historyVars >>

\* the statements after the query: the confidence, the context and the
\* sources are computed from `matches`, the next await is the generation
ChatRetrieved(ms, lg) ==
    /\ matches' = ms
    /\ confidenceScore' = ConfidenceScore(ms)
    /\ context' = ChatContext(ms)
    /\ sources' = ChatSources(ms)
    /\ chatLog' = lg
    /\ chatPc' = "generate"
    /\ UNCHANGED chatResponse

\* a failed query that reaches the catch block of the route
ChatQueryCatchAbort(lg) ==
    /\ ChatCatch([isError |-> TRUE, message |-> "Pinecone query failed"], lg)
    /\ UNCHANGED << matches, confidenceScore, context, sources >>

\* catch (pineconeError) { matches = []; }
ChatQueryCatch(lg) == ChatRetrieved(<< >>, lg)

\* await queryPinecone(queryEmbedding, 5) in its try/catch
ChatQuery ==
    /\ chatPc = "query"
    /\ \/ \E ms \in MatchLists :
             ChatRetrieved(ms, Append(chatLog, ChatCall("query", TRUE, "")))
       \/ ChatQueryCatch(Append(chatLog, ChatCall("query", FALSE, "")))
    /\ UNCHANGED message
    /\ UNCHANGED << chunkerVars, passVars, analyzeVars >>
    /\ UNCHANGED << previewVars, historyVars >>

\* await chatCompletion(messages, context), the clean-up of the answer and
\* the response
ChatGenerate ==
    /\ chatPc = "generate"
    /\ \/ \E t \in ChatThrown :
             ChatCatch(t, Append(chatLog, ChatCall("generate", FALSE, context)))
       \/ \E raw \in RawAnswers :
             /\ chatPc' = "done"
             /\ chatResponse' = ChatAnswer(StripMarkdown(raw), matches, sources,
                                           confidenceScore)
             /\ chatLog' = Append(chatLog, ChatCall("generate", TRUE, context))
    /\ UNCHANGED << message, matches, confidenceScore, context, sources >>
    /\ UNCHANGED << chunkerVars, passVars, analyzeVars >>
    /\ UNCHANGED << previewVars, historyVars >>

\* one chat request
ChatInit ==
    /\ text = << >>
    /\ chunks = << >>
    /\ tier = "none"
    /\ cpc = "off"
    /\ folder = << >>
    /\ syncs = 0
    /\ PassIdle
    /\ ChatIdle
    /\ urls = << >>
    /\ AnalyzeIdle
    /\ PreviewIdle
    /\ HistoryIdle

ChatNext == ChatStart \/ ChatEmbed \/ ChatQuery \/ ChatGenerate

SpecChat == ChatInit /\ [][ChatNext]_vars

\* ------------------------------------------------------------------------
\* The analyze route: POST of /api/website/analyze
\* ------------------------------------------------------------------------
\* urls.length > 100
MaxUrls == 100

\* allRisks.length > 5
HighRiskCount == 5

\* allRisks.length > 2
MediumRiskCount == 2

\* The text of a page is a sequence of tokens: words, and the marks that
\* end a sentence.  fetchPageContent leaves one space between two words; a
\* mark (one of Terminators) is written directly after the token before it.

\* the i flag of the patterns: a word in lower case
LowerCase(w) ==
    CASE w = "Blackboard" -> "blackboard"
      [] w = "Learn"      -> "learn"
      [] w = "Classic"    -> "classic"
      [] w = "Old"        -> "old"
      [] w = "Bb"         -> "bb"
      [] w = "Use"        -> "use"
      [] w = "Try"        -> "try"
      [] w = "All"        -> "all"
      [] OTHER            -> w

\* outdatedTerms: the words of each pattern, in the order of the table.
\* \b and \s+ separate words, so a pattern matches a run of whole words.
\* The fourth pattern needs a dot inside the match and the third a word
\* character right after the parenthesis.
outdatedTerms ==
    << [words |-> << "blackboard", "learn" >>,                severity |-> "high"],
       [words |-> << "bb", "learn" >>,                        severity |-> "high"],
       [words |-> << "learn", "(", "blackboard", ")", "\\b" >>, severity |-> "high"],
       [words |-> << "blackboard", "learn", "9", ".", "\\d+" >>, severity |-> "high"],
       [words |-> << "classic", "blackboard" >>,              severity |-> "medium"],
       [words |-> << "blackboard", "classic" >>,              severity |-> "medium"],
       [words |-> << "old", "blackboard" >>,                  severity |-> "medium"] >>

\* the first position from p on whose token is (isMark) or is not (~isMark)
\* a mark; Len(t) + 1 when there is none
RECURSIVE Seek(_, _, _)
Seek(t, p, isMark) ==
    IF p > Len(t) THEN Len(t) + 1
    ELSE IF (t[p] \in Terminators) = isMark THEN p
    ELSE Seek(t, p + 1, isMark)

\* the matches of /[^.!?]+[.!?]+/g from position p on: tokens that are not
\* marks, then all the marks that follow them; a rest without a mark is no
\* match
RECURSIVE SentencesFrom(_, _)
SentencesFrom(t, p) ==
    LET b == Seek(t, p, FALSE)
        m == Seek(t, b, TRUE)
        e == Seek(t, m, FALSE)
    IN  IF b > Len(t) \/ m > Len(t) THEN << >>
        ELSE << SubSeq(t, b, e - 1) >> \o SentencesFrom(t, e)

\* text.match(/[^.!?]+[.!?]+/g) || [text]
Sentences(t) ==
    LET found == SentencesFrom(t, 1)
    IN  IF found = << >> THEN << t >> ELSE found

\* the pattern matches the tokens of the sentence that start at position p
MatchAt(sentence, p, words) ==
    /\ p + Len(words) - 1 <= Len(sentence)
    /\ \A k \in 1..Len(words) : LowerCase(sentence[p + k - 1]) = words[k]

\* sentence.match(pattern) of a g pattern: the matched texts from left to
\* right, each search starting where the match before it ended
RECURSIVE MatchesFrom(_, _, _)
MatchesFrom(sentence, p, words) ==
    IF p > Len(sentence) THEN << >>
    ELSE IF MatchAt(sentence, p, words)
    THEN << Join(SubSeq(sentence, p, p + Len(words) - 1), " ") >>
             \o MatchesFrom(sentence, p + Len(words), words)
    ELSE MatchesFrom(sentence, p + 1, words)

\* the issues one pattern pushes for one sentence
PatternIssues(sentence, at, term) ==
    LET found == MatchesFrom(sentence, 1, term.words)
    IN  [ k \in 1..Len(found) |->
            [ term     |-> found[k],
              severity |-> term.severity,
              location |-> "Sentence " \o ToString(at) ] ]

\* outdatedTerms.forEach for one sentence, from pattern n on
RECURSIVE SentenceIssues(_, _, _)
SentenceIssues(sentence, at, n) ==
    IF n > Len(outdatedTerms) THEN << >>
    ELSE PatternIssues(sentence, at, outdatedTerms[n])
             \o SentenceIssues(sentence, at, n + 1)

\* sentences.forEach from sentence n on
RECURSIVE IssuesFrom(_, _)
IssuesFrom(ss, n) ==
    IF n > Len(ss) THEN << >>
    ELSE SentenceIssues(ss[n], n, 1) \o IssuesFrom(ss, n + 1)

\* detectOutdatedTerminology(text)
detectOutdatedTerminology(t) == IssuesFrom(Sentences(t), 1)

\* --- what the collaborators of the analyze route can answer ---

\* texts fetchPageContent can return
PlainPhrase   == << "All", "fine", "." >>
LearnPhrase   == << "Use", "Blackboard", "Learn", "." >>
ClassicPhrase == << "Try", "classic", "Blackboard", "!" >>
TwicePhrase   == << "Blackboard", "Learn", "or", "Blackboard", "Learn", "?" >>
OverlapPhrase == << "Old", "Blackboard", "Classic", "." >>
VersionPhrase == << "Blackboard", "Learn", "9", ".", "1", "." >>
TailPhrase    == << "Bb", "Learn" >>

Pages ==
    { << >>, PlainPhrase, LearnPhrase, ClassicPhrase, TwicePhrase,
      OverlapPhrase, VersionPhrase, TailPhrase,
      PlainPhrase \o LearnPhrase, LearnPhrase \o ClassicPhrase,
      PlainPhrase \o TailPhrase }

\* one element of the "issues" array; a property that is not set is
\* Undefined
Issue(type, description, currentText, outdatedText, location, severity, priority) ==
    [ type         |-> type,
      description  |-> description,
      currentText  |-> currentText,
      outdatedText |-> outdatedText,
      location     |-> location,
      severity     |-> severity,
      priority     |-> priority ]

\* issues the generation can report
Rename ==
    Issue("Terminology", "Rename the product", "Blackboard Learn", Undefined,
          "Sentence 1", "low", "low")

Reworded ==
    Issue("Terminology", "Say Ultra instead", Undefined, "Blackboard Learn",
          "Sentence 1", "medium", Undefined)

Elsewhere ==
    Issue("Terminology", "Rename the product", "Blackboard Learn", Undefined,
          "Sentence 2", "high", "medium")

Urgent ==
    Issue("Messaging", "Announce the transition", "Welcome", Undefined,
          "Header", "low", "immediate")

Bare ==
    Issue("Tone", Undefined, Undefined, Undefined, Undefined, Undefined, Undefined)

Minor(k) ==
    Issue("Style", "Minor wording " \o ToString(k), "wording " \o ToString(k),
          Undefined, "Paragraph " \o ToString(k), "low", "low")

IssueParts ==
    { << Rename >>, << Reworded >>, << Elsewhere >>, << Urgent >>, << Bare >>,
      << Minor(1), Minor(2), Minor(3) >>, << Minor(4), Minor(5), Minor(6) >> }

\* the concatenation of a list of lists
RECURSIVE Flatten(_)
Flatten(ps) == IF ps = << >> THEN << >> ELSE Head(ps) \o Flatten(Tail(ps))

\* the "issues" arrays of the model: up to MaxIssueParts parts
IssueLists ==
    { Flatten(ps) : ps \in UNION { [1..n -> IssueParts] : n \in 0..MaxIssueParts } }

\* the "risks" array with n elements
RiskTexts(n) == [ k \in 1..n |-> "risk " \o ToString(k) ]

\* An optional array is the empty set when the property is not set and
\* {a} when it is the array a.
\* x || [] of an optional array
OrEmpty(x) == IF x = {} THEN << >> ELSE CHOOSE a \in x : TRUE

\* the JSON object of a response that parses
Analysis(risks, riskLevel, issues) ==
    [ risks |-> risks, riskLevel |-> riskLevel, issues |-> issues ]

\* What chatCompletion can do: throw, answer without JSON (or with JSON
\* that does not parse), answer an object whose "issues" cannot be spread,
\* or answer an object with the documented properties, each set or not.
Replies ==
    { [kind |-> k, analysis |-> Analysis({}, Undefined, {})] :
          k \in { "throws", "noJson", "notIterable" } }
    \cup { [kind |-> "json", analysis |-> Analysis(rs, lv, is)] :
               rs \in { {}, {RiskTexts(0)}, {RiskTexts(3)} },
               lv \in { Undefined, "low", "medium", "high" },
               is \in { {} } \cup { {l} : l \in IssueLists } }

\* the replies of a request for several URLs
FewReplies ==
    { r \in Replies :
          \/ r.kind # "json"
          \/ r.analysis = Analysis({RiskTexts(0)}, "low", {<< Rename >>}) }

\* the replies the generation can give in a request for these URLs
RepliesFor(us) == IF Len(us) = 1 THEN Replies ELSE FewReplies

\* the pages of a request for several URLs
FewPages == { PlainPhrase, ClassicPhrase }

\* the pages the fetch can return in a request for these URLs
PagesFor(us) == IF Len(us) = 1 THEN Pages ELSE FewPages

\* what the query of the knowledge base can return
ContextLists ==
    { << >>,
      << IndexMatch(1, [score |-> {92}, hasMetadata |-> TRUE, hasText |-> TRUE]) >>,
      << IndexMatch(1, [score |-> {35}, hasMetadata |-> FALSE, hasText |-> FALSE]) >> }

\* --- the statements of the route ---

\* the fallback analysis of the catch (aiError): lines 330-351
FallbackAnalysis(outdated) ==
    Analysis(
        { << IF Len(outdated) > 0
             THEN "Found " \o ToString(Len(outdated))
                      \o " instance(s) of outdated Blackboard Learn terminology"
             ELSE "No obvious outdated terminology detected" >> },
        IF Len(outdated) > 0 THEN "high" ELSE "low",
        { [ k \in 1..Len(outdated) |->
              Issue("Outdated Terminology",
                    "Found outdated term: " \o outdated[k].term,
                    Undefined, outdated[k].term, outdated[k].location,
                    outdated[k].severity, Undefined) ] })

\* the analysis the route works with after the generation
AnalysisOf(reply, outdated) ==
    IF reply.kind \in { "throws", "noJson" }
    THEN FallbackAnalysis(outdated)
    ELSE reply.analysis

\* outdatedIssues.map(...) of the combination: lines 357-367
DetectedIssues(outdated) ==
    [ k \in 1..Len(outdated) |->
        Issue("Outdated Terminology",
              "Found outdated term: " \o outdated[k].term
                  \o ". This should be updated to acknowledge Learn as current while promoting Ultra adoption.",
              outdated[k].term, outdated[k].term, outdated[k].location,
              outdated[k].severity,
              IF outdated[k].severity = "high" THEN "high" ELSE "medium") ]

\* [...(analysis.issues || []), ...outdatedIssues.map(...)]
AllIssues(analysis, outdated) ==
    OrEmpty(analysis.issues) \o DetectedIssues(outdated)

\* (i.currentText || i.outdatedText) and i.location
IssueKey(issue) ==
    << OrElse(issue.currentText, issue.outdatedText), issue.location >>

\* the last index whose element has the key of the issue
FindIndexLast(self, issue) ==
    CHOOSE k \in 1..Len(self) :
        /\ IssueKey(self[k]) = IssueKey(issue)
        /\ \A m \in (k + 1)..Len(self) : IssueKey(self[m]) # IssueKey(issue)

\* self.findIndex((i) => key of i === key of issue): the first such index
FindIndex(self, issue) ==
    CHOOSE k \in 1..Len(self) :
        /\ IssueKey(self[k]) = IssueKey(issue)
        /\ \A m \in 1..(k - 1) : IssueKey(self[m]) # IssueKey(issue)

\* allIssues.filter((issue, index, self) => index === self.findIndex(...)),
\* from element n on
RECURSIVE UniqueFrom(_, _)
UniqueFrom(self, n) ==
    IF n > Len(self) THEN << >>
    ELSE (IF n = FindIndex(self, self[n]) THEN << self[n] >> ELSE << >>)
             \o UniqueFrom(self, n + 1)

UniqueIssues(all) == UniqueFrom(all, 1)

\* i.description || `${i.type}: ${i.description}`
RiskText(issue) ==
    OrElse(issue.description,
           issue.type \o ": "
               \o (IF issue.description = Undefined THEN "undefined"
                   ELSE IF issue.description = Null THEN "null" ELSE ""))

\* [...(analysis.risks || []), ...uniqueIssues.map(...)]
AllRisks(analysis, unique) ==
    OrEmpty(analysis.risks) \o [ k \in 1..Len(unique) |-> RiskText(unique[k]) ]

IsHighSeverity(issue)   == issue.severity = "high"
IsMediumSeverity(issue) == issue.severity = "medium"
IsHighPriority(issue)   == issue.priority \in { "immediate", "high" }

\* the risk level of the analysis when it has one, the thresholds otherwise
OverallRiskLevelOfAnalysis(analysis, outdated, unique) ==
    IF analysis.riskLevel # Undefined THEN analysis.riskLevel
    ELSE IF \E k \in 1..Len(unique) : IsHighSeverity(unique[k]) THEN "high"
    ELSE IF \E k \in 1..Len(unique) : IsMediumSeverity(unique[k]) THEN "medium"
    ELSE IF Len(outdated) > 0 THEN "high" ELSE "low"

\* lines 384-393
OverallRiskLevel(analysis, outdated, unique) ==
    LET highSeverityIssues   ==
            Cardinality({ k \in 1..Len(unique) : IsHighSeverity(unique[k]) })
        mediumSeverityIssues ==
            Cardinality({ k \in 1..Len(unique) : IsMediumSeverity(unique[k]) })
        highPriorityIssues   ==
            Cardinality({ k \in 1..Len(unique) : IsHighPriority(unique[k]) })
        allRisks             == AllRisks(analysis, unique)
    IN  IF highSeverityIssues > 0 \/ highPriorityIssues > 0
               \/ Len(allRisks) > HighRiskCount
        THEN "high"
        ELSE IF mediumSeverityIssues > 0 \/ Len(allRisks) > MediumRiskCount
        THEN "medium"
        ELSE OrElse(analysis.riskLevel,
                    IF Len(outdated) > 0 THEN "high" ELSE "low")

\* a page that could not be fetched, rated low
FetchFailureLow(url) ==
    [ url |-> url, success |-> FALSE, error |-> "Failed to fetch page content",
      risks |-> << >>, riskLevel |-> "low", issues |-> << >> ]

\* the result of a URL whose page could not be fetched: lines 150-158
FetchFailure(url) ==
    [ url |-> url, success |-> FALSE, error |-> "Failed to fetch page content",
      risks |-> << >>, riskLevel |-> "high", issues |-> << >> ]

\* the result the catch of the loop body pushes: lines 427-435
AnalysisFailure(url, msg) ==
    [ url |-> url, success |-> FALSE, error |-> msg,
      risks |-> << "Analysis failed: " \o msg >>, riskLevel |-> "high",
      issues |-> << >> ]

\* the result of an analysed URL: lines 407-423, without the properties
\* that are copied from the analysis
AnalysisResult(url, risks, level, unique) ==
    [ url |-> url, success |-> TRUE, error |-> Undefined,
      risks |-> risks, riskLevel |-> level, issues |-> unique ]

AnalyzeError(status, error) ==
    [ status |-> status, success |-> FALSE, error |-> error ]

\* lines 439-442
AnalyzeOk(rs) == [ status |-> 200, success |-> TRUE, results |-> rs ]

\* the record of one collaborator call of the analyze request
AnalyzeCall(op, n, outcome) == [ op |-> op, url |-> n, outcome |-> outcome ]

\* the end of one turn of the loop: the next URL, or the response
AnalyzeAdvance(rs) ==
    /\ results' = rs
    /\ IF u < Len(urls)
       THEN /\ u' = u + 1
            /\ analyzePc' = "fetch"
            /\ UNCHANGED analyzeResponse
       ELSE /\ analyzePc' = "done"
            /\ analyzeResponse' = AnalyzeOk(rs)
            /\ UNCHANGED u

\* lines 123-141: the checks of the request body
AnalyzeStart ==
    /\ analyzePc = "idle"
    /\ IF Len(urls) = 0
       THEN /\ analyzeResponse' = AnalyzeError(400, "URLs array is required")
            /\ analyzePc' = "done"
            /\ UNCHANGED u
       ELSE IF Len(urls) > MaxUrls
       THEN /\ analyzeResponse' = AnalyzeError(400, "Maximum 100 URLs allowed")
            /\ analyzePc' = "done"
            /\ UNCHANGED u
       ELSE /\ analyzePc' = "fetch"
            /\ u' = 1
            /\ UNCHANGED analyzeResponse
    /\ UNCHANGED << urls, outdatedIssues, ultraContext, allIssues, uniqueIssues,
                    overallRiskLevel, results, analyzeLog >>
    /\ UNCHANGED << chunkerVars, passVars, chatVars >>
    /\ UNCHANGED << previewVars, historyVars >>

\* lines 144-165: fetchPageContent and detectOutdatedTerminology
AnalyzeFetch ==
    /\ analyzePc = "fetch"
    /\ \/ /\ analyzeLog' = Append(analyzeLog, AnalyzeCall("fetch", u, "null"))
          /\ AnalyzeAdvance(Append(results, FetchFailure(urls[u])))
          /\ UNCHANGED << outdatedIssues, ultraContext >>
       \/ \E page \in PagesFor(urls) :
             /\ analyzeLog' = Append(analyzeLog, AnalyzeCall("fetch", u, "page"))
             /\ outdatedIssues' = detectOutdatedTerminology(page)
             /\ ultraContext' = ""
             /\ analyzePc' = "context"
             /\ UNCHANGED << u, results, analyzeResponse >>
    /\ UNCHANGED << urls, allIssues, uniqueIssues, overallRiskLevel >>
    /\ UNCHANGED << chunkerVars, passVars, chatVars >>
    /\ UNCHANGED << previewVars, historyVars >>

\* lines 167-185: the context of the knowledge base; a failure is logged and
\* the context stays empty
AnalyzeContext ==
    /\ analyzePc = "context"
    /\ \/ \E ms \in ContextLists :
             /\ analyzeLog' = Append(analyzeLog, AnalyzeCall("query", u, "ok"))
             /\ ultraContext' =
                    Join([ k \in 1..Len(ms) |->
                             "[" \o OrElse(ms[k].metadata.title, "Document") \o "]: "
                                 \o OrElse(ms[k].metadata.text, "") ], "\n\n")
       \/ /\ analyzeLog' = Append(analyzeLog, AnalyzeCall("query", u, "throws"))
          /\ ultraContext' = ""
    /\ analyzePc' = "generate"
    /\ UNCHANGED << urls, u, outdatedIssues, allIssues, uniqueIssues,
                    overallRiskLevel, results, analyzeResponse >>
    /\ UNCHANGED << chunkerVars, passVars, chatVars >>
    /\ UNCHANGED << previewVars, historyVars >>

\* lines 298-436: the generation, the combination of the issues, the risk
\* level and the result of the URL
AnalyzeGenerate ==
    /\ analyzePc = "generate"
    /\ \E reply \in RepliesFor(urls) :
          /\ analyzeLog' = Append(analyzeLog, AnalyzeCall("generate", u, reply.kind))
          /\ IF reply.kind = "notIterable"
             THEN /\ AnalyzeAdvance(Append(results,
                        AnalysisFailure(urls[u], "analysis.issues is not iterable")))
                  /\ UNCHANGED << allIssues, uniqueIssues, overallRiskLevel >>
             ELSE LET analysis == AnalysisOf(reply, outdatedIssues)
                      all      == AllIssues(analysis, outdatedIssues)
                      unique   == UniqueIssues(all)
                      level    == OverallRiskLevel(analysis, outdatedIssues, unique)
                  IN  /\ allIssues' = all
                      /\ uniqueIssues' = unique
                      /\ overallRiskLevel' = level
                      /\ AnalyzeAdvance(Append(results,
                            AnalysisResult(urls[u], AllRisks(analysis, unique),
                                           level, unique)))
    /\ UNCHANGED << urls, outdatedIssues, ultraContext >>
    /\ UNCHANGED << chunkerVars, passVars, chatVars >>
    /\ UNCHANGED << previewVars, historyVars >>

\* the bodies of the requests: no URL, one URL, several URLs, and one URL
\* more than the route accepts
UrlLists ==
    { [ k \in 1..n |-> "https://example.edu/page" \o ToString(k) ] :
          n \in { 0, 1, MaxListed, MaxUrls + 1 } }

AnalyzeInit ==
    /\ text = << >>
    /\ chunks = << >>
    /\ tier = "none"
    /\ cpc = "off"
    /\ folder = << >>
    /\ syncs = 0
    /\ PassIdle
    /\ ChatIdle
    /\ urls \in UrlLists
    /\ AnalyzeIdle
    /\ PreviewIdle
    /\ HistoryIdle

AnalyzeNext == AnalyzeStart \/ AnalyzeFetch \/ AnalyzeContext \/ AnalyzeGenerate

SpecAnalyze == AnalyzeInit /\ [][AnalyzeNext]_vars

\* ------------------------------------------------------------------------
\* The preview route: POST of /api/documents/preview
\* ------------------------------------------------------------------------
\* a || b of two optional numbers: a when it is set and not 0, b otherwise
OrNumber(a, b) == IF a = {} \/ a = {0} THEN b ELSE a

\* What one match of the query can look like: the metadata names the file
\* and the position of the chunk under the names the pipeline writes
\* (fileId, chunkIndex), under the other names the route accepts (file_id,
\* chunk_index), or not at all.
PreviewFileIds == { "f1", "f2" }

PreviewKinds ==
    { [file |-> f, legacy |-> lg, position |-> ps] :
          f \in PreviewFileIds \cup { Undefined },
          lg \in BOOLEAN,
          ps \in { {}, {0}, {1}, {2} } }

\* the k-th match of a query result
PreviewMatch(k, kind) ==
    [ id       |-> "v" \o ToString(k),
      score    |-> {90 - k},
      metadata |->
          [ fileId      |-> IF kind.legacy THEN Undefined ELSE kind.file,
            file_id     |-> IF kind.legacy THEN kind.file ELSE Undefined,
            chunkIndex  |-> IF kind.legacy THEN {} ELSE kind.position,
            chunk_index |-> IF kind.legacy THEN kind.position ELSE {},
            text        |-> IF kind.legacy THEN Undefined ELSE "text " \o ToString(k),
            content     |-> IF kind.legacy THEN "content " \o ToString(k) ELSE Undefined,
            title       |-> IF kind.legacy THEN Undefined ELSE "Guide" ] ]

\* what queryPineconeByFileId can return: up to MaxMatches matches in any
\* order, of the file asked for or not
PreviewMatchLists ==
    { [k \in DOMAIN kinds |-> PreviewMatch(k, kinds[k])] :
          kinds \in UNION { [1..n -> PreviewKinds] : n \in 0..MaxMatches } }

\* match.metadata?.fileId || match.metadata?.file_id
MatchFileId(match) == OrElse(match.metadata.fileId, match.metadata.file_id)

\* matches.filter(match => matchFileId === fileId)
RECURSIVE FilterByFileId(_, _)
FilterByFileId(ms, id) ==
    IF ms = << >> THEN << >>
    ELSE (IF MatchFileId(Head(ms)) = id THEN << Head(ms) >> ELSE << >>)
             \o FilterByFileId(Tail(ms), id)

\* Number(metadata.chunkIndex || metadata.chunk_index || 0) || 0
SortIndex(match) ==
    OrZero(OrNumber(match.metadata.chunkIndex,
                    OrNumber(match.metadata.chunk_index, {0})))

\* the sorted list with one more match: after the matches that do not sort
\* after it
RECURSIVE Inserted(_, _)
Inserted(sorted, match) ==
    IF sorted = << >> THEN << match >>
    ELSE IF SortIndex(Head(sorted)) - SortIndex(match) <= 0
    THEN << Head(sorted) >> \o Inserted(Tail(sorted), match)
    ELSE << match >> \o sorted

\* the matches in the order the query returned them
SortByChunkIndexKept(ms) == ms

\* filteredMatches.sort((a, b) => aIndex - bIndex): ascending, and matches
\* that compare equal keep their order
RECURSIVE SortByChunkIndex(_)
SortByChunkIndex(ms) ==
    IF ms = << >> THEN << >>
    ELSE Inserted(SortByChunkIndex(SubSeq(ms, 1, Len(ms) - 1)), ms[Len(ms)])

\* one element of filteredMatches.map((match, index) => ({...}))
PreviewChunk(match, position) ==
    [ id         |-> match.id,
      chunkIndex |-> OrZero(OrNumber(match.metadata.chunkIndex,
                                     OrNumber(match.metadata.chunk_index,
                                              {position}))),
      text       |-> OrElse(match.metadata.text,
                            OrElse(match.metadata.content, "")),
      score      |-> OrZero(match.score),
      title      |-> OrElse(match.metadata.title, "Untitled") ]

PreviewChunks(ms) == [ k \in 1..Len(ms) |-> PreviewChunk(ms[k], k - 1) ]

PreviewError(status, error) ==
    [ status |-> status, success |-> FALSE, error |-> error,
      chunks |-> << >>, chunkCount |-> 0 ]

\* lines 24-31: no match is of the file
PreviewNothing ==
    [ status |-> 200, success |-> FALSE,
      error  |-> "No content found for this document. It may not be fully indexed in the vector database.",
      chunks |-> << >>, chunkCount |-> 0 ]

\* lines 50-55
PreviewOk(cs) ==
    [ status |-> 200, success |-> TRUE, error |-> Undefined,
      chunks |-> cs, chunkCount |-> Len(cs) ]

\* lines 5-13: the body and the check of fileId
PreviewStart ==
    /\ previewPc = "idle"
    /\ \E id \in PreviewFileIds \cup { "" } :
          /\ previewFileId' = id
          /\ IF id = ""
             THEN /\ previewResponse' = PreviewError(400, "File ID is required")
                  /\ previewPc' = "done"
             ELSE /\ previewPc' = "query"
                  /\ UNCHANGED previewResponse
    /\ UNCHANGED filteredMatches
    /\ UNCHANGED << chunkerVars, passVars, chatVars, analyzeVars, historyVars >>

\* lines 15-61: the query, the filter, the sort and the response; a query
\* that throws is answered with status 500
PreviewQuery ==
    /\ previewPc = "query"
    /\ \/ /\ previewResponse' = PreviewError(500, "Failed to get document preview")
          /\ UNCHANGED filteredMatches
       \/ \E ms \in PreviewMatchLists :
             LET kept == FilterByFileId(ms, previewFileId)
             IN  IF Len(kept) = 0
                 THEN /\ filteredMatches' = kept
                      /\ previewResponse' = PreviewNothing
                 ELSE /\ filteredMatches' = SortByChunkIndex(kept)
                      /\ previewResponse' = PreviewOk(PreviewChunks(SortByChunkIndex(kept)))
    /\ previewPc' = "done"
    /\ UNCHANGED previewFileId
    /\ UNCHANGED << chunkerVars, passVars, chatVars, analyzeVars, historyVars >>

\* an index that holds the chunks of two files
PreviewIndex ==
    { RouteVector([id |-> f, name |-> "Guide", mimeType |-> "text/plain"], n,
                  << "t" >>) :
          f \in PreviewFileIds, n \in 0..1 }

PreviewInit ==
    /\ text = << >>
    /\ chunks = << >>
    /\ tier = "none"
    /\ cpc = "off"
    /\ folder = << >>
    /\ syncs = 0
    /\ entry = "none"
    /\ pc = "idle"
    /\ files = << >>
    /\ i = 0
    /\ j = 0
    /\ vectors = << >>
    /\ successfulChunks = 0
    /\ processedFiles = << >>
    /\ totalChunks = 0
    /\ failedFileDetails = << >>
    /\ response = NoResponse
    /\ log = << >>
    /\ passes = << >>
    /\ index \in { {}, PreviewIndex }
    /\ ChatIdle
    /\ urls = << >>
    /\ AnalyzeIdle
    /\ PreviewIdle
    /\ HistoryIdle

PreviewNext == PreviewStart \/ PreviewQuery

SpecPreview == PreviewInit /\ [][PreviewNext]_vars

\* ------------------------------------------------------------------------
\* The chat interface and its conversation history (ChatInterface.tsx)
\* ------------------------------------------------------------------------
\* .slice(0, 50)
MaxConversations == 50

\* how many clicks (submit, new conversation, load, delete) are followed
MaxClicks == 3

LongQuestion == "How do I move the graded assignments of my Learn course to Ultra?"

\* the first 50 characters of LongQuestion
LongQuestion50 == "How do I move the graded assignments of my Learn c"

\* what the user types: never blank, handleSubmit returns on a blank input
Questions == { "How do I grade?", LongQuestion }

\* content.substring(0, 50)
Substring50(c) == IF c = LongQuestion THEN LongQuestion50 ELSE c

\* the messages, without their timestamps, sources and scores
UserMessage(content) == [role |-> "user", content |-> content]

AssistantMessage == [role |-> "assistant", content |-> "Open the gradebook."]

ErrorMessageOfChat == [role |-> "assistant", content |-> "Error: Failed to get response"]

\* firstUserMessage?.content.substring(0, 50) || 'New Conversation'
Title(ms) ==
    LET users == SelectSeq(ms, LAMBDA m : m.role = "user")
    IN  IF users = << >> THEN "New Conversation"
        ELSE OrElse(Substring50(users[1].content), "New Conversation")

Conversation(id, ms, createdAt, updatedAt) ==
    [ id |-> id, title |-> Title(ms), messages |-> ms,
      createdAt |-> createdAt, updatedAt |-> updatedAt ]

\* a conversation saved k clicks before the page was opened
OldConversation(k) ==
    Conversation(ToString(0 - k), << UserMessage("How do I grade?"), AssistantMessage >>,
                 0 - k, 0 - k)

\* what localStorage holds when the page is opened: nothing, one
\* conversation, or as many as are kept, the newest first
StoredLists ==
    { [k \in 1..n |-> OldConversation(k)] : n \in { 0, 1, MaxConversations } }

\* existingConversations.findIndex(c => c.id === id), from 1, 0 if none
ConversationIndex(cs, id) ==
    IF \E k \in 1..Len(cs) : cs[k].id = id
    THEN Least({k \in 1..Len(cs) : cs[k].id = id})
    ELSE 0

\* the id of the conversation saveConversationToHistory writes
SavedId(selected, t) == IF selected # Null THEN selected ELSE ToString(t)

\* recentConversations of saveConversationToHistory, called at time t with
\* `selectedConversation` = selected and localStorage holding existing; an
\* assignment at index -1 adds no element to the array
saveConversationToHistory(ms, selected, existing, t) ==
    LET at      == ConversationIndex(existing, selected)
        updated ==
            IF selected # Null
            THEN IF at = 0 THEN existing
                 ELSE [existing EXCEPT
                          ![at] = Conversation(selected, ms, existing[at].createdAt, t)]
            ELSE << Conversation(ToString(t), ms, t, t) >> \o existing
    IN  SubSeq(updated, 1, Min(Len(updated), MaxConversations))

\* the closure of a handleSubmit that awaits its response
Submitted(ms, selected, userMessage) ==
    [ messages |-> ms, selected |-> selected, userMessage |-> userMessage,
      interrupted |-> FALSE ]

\* history: a click between the submit and its response
Interrupted(flight) ==
    IF flight = << >> THEN << >> ELSE << [flight[1] EXCEPT !.interrupted = TRUE] >>

\* the entries of the history panel a click can be on
Targets(cs) == { 1, Len(cs) } \cap (1..Len(cs))

\* useEffect(() => { loadConversationsFromHistory(); }, [])
HistoryMount ==
    /\ ~mounted
    /\ mounted' = TRUE
    /\ conversations' = stored
    /\ UNCHANGED << messages, isLoading, selectedConversation, stored, inFlight,
                    now, written >>
    /\ UNCHANGED << chunkerVars, passVars, chatVars, analyzeVars, previewVars >>

\* handleSubmit up to `await fetch('/api/chat', ...)`
HandleSubmit ==
    /\ mounted
    /\ ~isLoading
    /\ now < MaxClicks
    /\ \E input \in Questions :
          /\ messages' = Append(messages, UserMessage(input))
          /\ inFlight' = << Submitted(messages, selectedConversation, UserMessage(input)) >>
    /\ isLoading' = TRUE
    /\ now' = now + 1
    /\ UNCHANGED << mounted, conversations, selectedConversation, stored, written >>
    /\ UNCHANGED << chunkerVars, passVars, chatVars, analyzeVars, previewVars >>

\* handleSubmit from the response on: the assistant's message and the save,
\* or the error message; then isLoading is reset
HandleResponse ==
    /\ inFlight # << >>
    /\ \/ LET flight == inFlight[1]
              saved  == flight.messages \o << flight.userMessage, AssistantMessage >>
              recent == saveConversationToHistory(saved, flight.selected, stored, now)
          IN  /\ messages' = Append(messages, AssistantMessage)
              /\ stored' = recent
              /\ conversations' = recent
              /\ written' = IF flight.interrupted THEN { }
                            ELSE written \cup { SavedId(flight.selected, now) }
       \/ /\ messages' = Append(messages, ErrorMessageOfChat)
          /\ UNCHANGED << stored, conversations, written >>
    /\ isLoading' = FALSE
    /\ inFlight' = << >>
    /\ UNCHANGED << mounted, selectedConversation, now >>
    /\ UNCHANGED << chunkerVars, passVars, chatVars, analyzeVars, previewVars >>

\* startNewConversation
StartNewConversation ==
    /\ mounted
    /\ now < MaxClicks
    /\ messages' = << >>
    /\ selectedConversation' = Null
    /\ now' = now + 1
    /\ written' = { }
    /\ inFlight' = Interrupted(inFlight)
    /\ UNCHANGED << mounted, isLoading, conversations, stored >>
    /\ UNCHANGED << chunkerVars, passVars, chatVars, analyzeVars, previewVars >>

\* loadConversation(conversationId), from a click on an entry of the panel
LoadConversation ==
    /\ mounted
    /\ now < MaxClicks
    /\ \E k \in Targets(conversations) :
          /\ messages' = conversations[k].messages
          /\ selectedConversation' = conversations[k].id
    /\ now' = now + 1
    /\ written' = { }
    /\ inFlight' = Interrupted(inFlight)
    /\ UNCHANGED << mounted, isLoading, conversations, stored >>
    /\ UNCHANGED << chunkerVars, passVars, chatVars, analyzeVars, previewVars >>

\* deleteConversation(conversationId), from a click on an entry of the panel
DeleteConversation ==
    /\ mounted
    /\ now < MaxClicks
    /\ \E k \in Targets(conversations) :
          LET updated == SelectSeq(conversations, LAMBDA c : c.id # conversations[k].id)
          IN  /\ stored' = updated
              /\ conversations' = updated
              /\ IF selectedConversation = conversations[k].id
                 THEN /\ messages' = << >>
                      /\ selectedConversation' = Null
                 ELSE UNCHANGED << messages, selectedConversation >>
    /\ now' = now + 1
    /\ written' = { }
    /\ inFlight' = Interrupted(inFlight)
    /\ UNCHANGED << mounted, isLoading >>
    /\ UNCHANGED << chunkerVars, passVars, chatVars, analyzeVars, previewVars >>

HistoryInit ==
    /\ text = << >>
    /\ chunks = << >>
    /\ tier = "none"
    /\ cpc = "off"
    /\ folder = << >>
    /\ syncs = 0
    /\ PassIdle
    /\ ChatIdle
    /\ urls = << >>
    /\ AnalyzeIdle
    /\ PreviewIdle
    /\ mounted = FALSE
    /\ messages = << >>
    /\ isLoading = FALSE
    /\ conversations = << >>
    /\ selectedConversation = Null
    /\ stored \in StoredLists
    /\ inFlight = << >>
    /\ now = 0
    /\ written = { }

HistoryNext ==
    \/ HistoryMount
    \/ HandleSubmit
    \/ HandleResponse
    \/ StartNewConversation
    \/ LoadConversation
    \/ DeleteConversation

SpecHistory == HistoryInit /\ [][HistoryNext]_vars

\* ------------------------------------------------------------------------
\* Vocabulary of the properties
\* ------------------------------------------------------------------------
\* a pass has returned to its caller
PassDone == pc = "idle" /\ Len(passes) >= 1

\* ... with a report
Reported == PassDone /\ response.kind = "report"

EntriesFor(pf, f) == {k \in 1..Len(pf) : pf[k].file = f}

RECURSIVE SumChunks(_)
SumChunks(pf) == IF pf = << >> THEN 0 ELSE Head(pf).chunks + SumChunks(Tail(pf))

\* the calls of the pass so far, by kind, file, chunk and result
Calls(op, f, c, ok) ==
    {k \in 1..Len(log) :
        log[k].op = op /\ log[k].file = f /\ log[k].chunk = c /\ log[k].ok = ok}

Threw(op, f) == \E k \in 1..Len(log) : log[k].op = op /\ log[k].file = f /\ ~log[k].ok

Attempted(op, f) == \E k \in 1..Len(log) : log[k].op = op /\ log[k].file = f

\* the chunk indices of file f
ChunkIndicesOf(f) == 0..(Len(ChunkText(files[f].text)) - 1)

\* ------------------------------------------------------------------------
\* C1. When the fetch or the extraction of a file throws, the file is
\* recorded once, with chunks = 0 and a non-empty error message; the pass
\* still ends with a report in which every later file of the listing has an
\* entry, and the total equals the chunks of the other files.
\* ------------------------------------------------------------------------
C1_FailedFileIsolated ==
    \A f \in 1..Len(files) :
        (Threw("fetch", f) \/ Threw("extract", f)) =>
            /\ Cardinality(EntriesFor(processedFiles, f)) = 1
            /\ \A k \in EntriesFor(processedFiles, f) :
                  /\ processedFiles[k].chunks = 0
                  /\ processedFiles[k].error \notin {Undefined, ""}
            /\ pc = "idle" =>
                  /\ response.kind = "report"
                  /\ \A g \in (f + 1)..Len(files) :
                        EntriesFor(response.processedFiles, g) # {}
                  /\ response.totalChunks =
                        SumChunks(SelectSeq(response.processedFiles,
                                            LAMBDA e : e.file # f))

\* ------------------------------------------------------------------------
\* C2. The report of a pass has exactly one entry for every file of the
\* listing, whatever its id, name or content type, and its file count is
\* the number of listed files.
\* ------------------------------------------------------------------------
C2_EveryListedFileReported ==
    Reported =>
        /\ \A f \in 1..Len(files) :
              Cardinality(EntriesFor(response.processedFiles, f)) = 1
        /\ Len(response.processedFiles) = Len(files)
        /\ response.totalFiles = Len(files)

\* ------------------------------------------------------------------------
\* C3. In the script, once a file that reached the chunk loop is recorded,
\* every one of its chunks was embedded once, every chunk whose embedding
\* returned was upserted once, and the entry reports exactly the number of
\* chunks whose upsert returned.
\* ------------------------------------------------------------------------
C3_ScriptChunkFailureSkipsOneChunk ==
    \A f \in 1..Len(files) :
        (entry = "script" /\ Attempted("embed", f) /\ EntriesFor(processedFiles, f) # {}) =>
            /\ \A c \in ChunkIndicesOf(f) :
                  /\ Cardinality(Calls("embed", f, c, TRUE) \cup Calls("embed", f, c, FALSE)) = 1
                  /\ Cardinality(Calls("upsert", f, c, TRUE) \cup Calls("upsert", f, c, FALSE))
                        = Cardinality(Calls("embed", f, c, TRUE))
            /\ \A k \in EntriesFor(processedFiles, f) :
                  processedFiles[k].chunks =
                      Cardinality({c \in ChunkIndicesOf(f) : Calls("upsert", f, c, TRUE) # {}})

\* chunk 0 of a two-chunk file failed, chunk 1 was uploaded, the file
\* reports one chunk
C3_Witness ==
    /\ entry = "script"
    /\ \E f \in 1..Len(files) :
          /\ Calls("embed", f, 0, FALSE) # {}
          /\ Calls("upsert", f, 1, TRUE) # {}
          /\ \E k \in EntriesFor(processedFiles, f) : processedFiles[k].chunks = 1

\* ------------------------------------------------------------------------
\* C4. In the route, when the embedding of one chunk of a file fails, the
\* other chunks of the file are still embedded and upserted and the file's
\* entry reports the number of chunks that succeeded.
\* ------------------------------------------------------------------------
C4_RouteChunkFailureConfined ==
    \A f \in 1..Len(files) :
        (entry = "route" /\ Threw("embed", f) /\ EntriesFor(processedFiles, f) # {}) =>
            /\ \A c \in ChunkIndicesOf(f) :
                  /\ Calls("embed", f, c, TRUE) \cup Calls("embed", f, c, FALSE) # {}
                  /\ Calls("embed", f, c, TRUE) # {} =>
                        \E v \in index : v.fileId = files[f].id /\ v.chunkIndex = c
            /\ \A k \in EntriesFor(processedFiles, f) :
                  processedFiles[k].chunks =
                      Cardinality({c \in ChunkIndicesOf(f) : Calls("embed", f, c, TRUE) # {}})

\* ------------------------------------------------------------------------
\* C5. Given a folder id, a pass ends in an error (status 500, exit code 1)
\* exactly when the listing failed; a pass in which a fetch, an extraction,
\* an embedding or an upsert failed still ends with a report.
\* ------------------------------------------------------------------------
C5_OnlyListingFailureIsFatal ==
    (PassDone /\ response.kind # "nofolder") =>
        /\ response.kind = "error" <=> (\E k \in 1..Len(log) : log[k].op = "list" /\ ~log[k].ok)
        /\ (\E k \in 1..Len(log) : log[k].op # "list" /\ ~log[k].ok) =>
              response.kind = "report"

\* a pass in which a fetch and an upsert failed returned its report
C5_Witness ==
    /\ Reported
    /\ \E f \in 1..Len(files) : Threw("fetch", f)
    /\ \E f \in 1..Len(files) : Threw("upsert", f)

\* ------------------------------------------------------------------------
\* C6. At every point of a pass totalChunks is the sum of the chunk counts
\* of the entries recorded so far, the total of the report is the sum over
\* its entries, and an entry with an error counts 0.
\* ------------------------------------------------------------------------
C6_TotalIsSumOfEntries ==
    /\ totalChunks = SumChunks(processedFiles)
    /\ \A k \in 1..Len(processedFiles) :
          processedFiles[k].error # Undefined => processedFiles[k].chunks = 0
    /\ response.kind = "report" =>
          response.totalChunks = SumChunks(response.processedFiles)

\* mid-pass: one file recorded with chunks, the next one being worked on
C6_Witness ==
    /\ pc = "extract"
    /\ i = 2
    /\ totalChunks = 2
    /\ Len(processedFiles) = 1

\* ------------------------------------------------------------------------
\* C7. Two consecutive passes through the same entry point over the same
\* unchanged file, with every call for the file returning in both, write
\* the same set of vector ids and report the same chunk count, and the
\* index holds no more vectors of the file after the second pass than
\* after the first.
\* ------------------------------------------------------------------------
C7_ResyncIsIdempotent ==
    \A p \in 1..(Len(passes) - 1) :
        passes[p].entry = passes[p + 1].entry =>
            \A f \in passes[p].clean \cap passes[p + 1].clean :
                /\ passes[p + 1].written[f] = passes[p].written[f]
                /\ passes[p + 1].counts[f] = passes[p].counts[f]
                /\ passes[p + 1].indexed[f] <= passes[p].indexed[f]

\* a two-chunk file synced twice through the same entry point without a
\* failure
C7_Witness ==
    /\ Len(passes) = 2
    /\ passes[1].entry = passes[2].entry
    /\ 1 \in passes[1].clean \cap passes[2].clean
    /\ Cardinality(passes[2].written[1]) = 2
    /\ passes[2].counts[1] = {2}

\* ------------------------------------------------------------------------
\* C8. Whatever the text and the tier, every chunk of the chunker is at
\* most 2000 characters long and its trimmed length is above 20.
\* ------------------------------------------------------------------------
C8_ChunkLengthsBounded ==
    cpc = "done" =>
        \A k \in 1..Len(chunks) :
            /\ Len(chunks[k]) <= 2000
            /\ Len(Trim(chunks[k])) > 20

\* a text that gives a chunk of exactly 2000 characters and another of 21
C8_Witness ==
    /\ cpc = "done"
    /\ \E k \in 1..Len(chunks) : Len(chunks[k]) = 2000
    /\ \E k \in 1..Len(chunks) : Len(Trim(chunks[k])) = 21

\* ------------------------------------------------------------------------
\* C9. The sentence tier is used only when the split on runs of two or more
\* newlines leaves no paragraph whose trimmed length exceeds 20, the
\* fixed-size tier only when in addition the sentence split leaves no such
\* fragment, and all chunks of a text come from the one tier used: each is
\* a fragment of that tier or a trimmed window of one.
\* ------------------------------------------------------------------------
NoneAboveMinimum(frags) == \A m \in 1..Len(frags) : Len(Trim(frags[m])) <= 20

\* the fragments a tier works on
TierFragments(t, txt) ==
    IF t = "paragraph" THEN SplitParagraphs(txt)
    ELSE IF t = "sentence" THEN SplitSentences(txt)
    ELSE << txt >>

\* c is the fragment itself or the trimmed window of it at a multiple of
\* 1800
ChunkOfFragment(c, frag) ==
    \/ c = frag
    \/ \E w \in 0..(Len(frag) \div 1800) :
          c = Trim(SubSeq(frag, 1800 * w + 1, Min(1800 * w + 2000, Len(frag))))

C9_TierUsedOnlyAsFallback ==
    cpc = "done" =>
        /\ tier \in {"paragraph", "sentence", "fixed"}
        /\ tier = "sentence" => NoneAboveMinimum(SplitParagraphs(text))
        /\ tier = "fixed" =>
              /\ NoneAboveMinimum(SplitParagraphs(text))
              /\ NoneAboveMinimum(SplitSentences(text))
        /\ LET frags == TierFragments(tier, text)
           IN  \A k \in 1..Len(chunks) :
                   \E m \in 1..Len(frags) : ChunkOfFragment(chunks[k], frags[m])

\* the fixed-size tier produced a chunk
C9_Witness ==
    /\ cpc = "done"
    /\ tier = "fixed"
    /\ chunks # << >>

\* ------------------------------------------------------------------------
\* C10. The first of the three tiers that emits at least one chunk wins:
\* the chunks are those of the paragraph tier if it emits any, otherwise
\* those of the sentence tier if it emits any, otherwise those of the
\* fixed-size tier; so there are zero chunks only if all three emit none.
\* ------------------------------------------------------------------------
FirstEmittingTier(txt) ==
    IF SplitLarge(paragraphChunks(txt)) # << >> THEN SplitLarge(paragraphChunks(txt))
    ELSE IF SplitLarge(sentenceChunks(txt)) # << >> THEN SplitLarge(sentenceChunks(txt))
    ELSE fixedChunks(txt)

C10_FirstEmittingTierWins ==
    cpc = "done" =>
        /\ chunks = FirstEmittingTier(text)
        /\ chunks = << >> =>
              /\ SplitLarge(paragraphChunks(text)) = << >>
              /\ SplitLarge(sentenceChunks(text)) = << >>
              /\ fixedChunks(text) = << >>

\* ------------------------------------------------------------------------
\* C11. A text longer than 2000 characters with no double newline and no
\* sentence terminator is one paragraph.  As stated: it is chunked by the
\* fixed-size tier and yields ceil(n / 1800) non-empty chunks.
\* ------------------------------------------------------------------------
CeilDiv(a, b) == (a + b - 1) \div b

\* longer than the maximum, no /\n\n+/ match and none of . ! ?
OneLongFragment(txt) ==
    /\ Len(txt) > 2000
    /\ \A k \in 1..(Len(txt) - 1) : ~(txt[k] = NL /\ txt[k + 1] = NL)
    /\ \A k \in 1..Len(txt) : txt[k] \notin {".", "!", "?"}

C11_FixedTierCeilCount ==
    (cpc = "done" /\ OneLongFragment(text)) =>
        /\ tier = "fixed"
        /\ Len(chunks) = CeilDiv(Len(text), 1800)
        /\ \A k \in 1..Len(chunks) : chunks[k] # << >>

\* the trimmed window of txt that starts at offset 1800 * w
TrimmedWindow(txt, w) ==
    Trim(SubSeq(txt, 1800 * w + 1, Min(1800 * w + 2000, Len(txt))))

\* the windows at 0, 1800, 3600, ... below the length, in order, without
\* those whose trimmed length is not above 20
KeptWindows(txt) ==
    SelectSeq([k \in 1..CeilDiv(Len(txt), 1800) |-> TrimmedWindow(txt, k - 1)],
              LAMBDA w : Len(w) > 20)

\* C11 as the code has it: such a text, when its trimmed length is above
\* 20, is chunked by the windowing of the paragraph tier; there is one chunk
\* per window start 0, 1800, 3600, ... below n whose trimmed window is longer
\* than 20, so at most ceil(n / 1800) chunks, each non-empty.
C11_ParagraphTierKeptWindows ==
    (cpc = "done" /\ OneLongFragment(text) /\ Len(Trim(text)) > 20) =>
        /\ tier = "paragraph"
        /\ chunks = KeptWindows(text)
        /\ Len(chunks) <= CeilDiv(Len(text), 1800)
        /\ \A k \in 1..Len(chunks) : chunks[k] # << >>

\* a word of 3610 characters: three window starts, two chunks
C11_Witness ==
    /\ cpc = "done"
    /\ OneLongFragment(text)
    /\ Len(text) = 3610
    /\ CeilDiv(Len(text), 1800) = 3
    /\ Len(chunks) = 2

\* ------------------------------------------------------------------------
\* C12. In the paragraph and the sentence tier a fragment of at most 2000
\* characters is emitted as one unmodified chunk.  As stated, a longer
\* fragment of length L gives the windows [1800 k, min(1800 k + 2000, L))
\* for k = 0, 1, ... while 1800 k < L, each of them a chunk.
\* ------------------------------------------------------------------------
\* the windows of frag as they are cut
AllWindows(frag) ==
    [k \in 1..CeilDiv(Len(frag), 1800) |->
        SubSeq(frag, 1800 * (k - 1) + 1, Min(1800 * (k - 1) + 2000, Len(frag)))]

\* the fragments of the tier used that pass the minimum-length filter
KeptFragments(t, txt) ==
    SelectSeq(TierFragments(t, txt), LAMBDA f : Len(Trim(f)) > 20)

RECURSIVE WholeOrAllWindows(_)
WholeOrAllWindows(frags) ==
    IF frags = << >> THEN << >>
    ELSE (IF Len(Head(frags)) <= 2000 THEN << Head(frags) >> ELSE AllWindows(Head(frags)))
         \o WholeOrAllWindows(Tail(frags))

C12_FragmentWindows ==
    (cpc = "done" /\ tier \in {"paragraph", "sentence"}) =>
        chunks = WholeOrAllWindows(KeptFragments(tier, text))

RECURSIVE WholeOrKeptWindows(_)
WholeOrKeptWindows(frags) ==
    IF frags = << >> THEN << >>
    ELSE (IF Len(Head(frags)) <= 2000 THEN << Head(frags) >> ELSE KeptWindows(Head(frags)))
         \o WholeOrKeptWindows(Tail(frags))

\* C12 as the code has it: a fragment of at most 2000 characters is one
\* unmodified chunk; a longer one gives, for each window [1800 k,
\* min(1800 k + 2000, L)) with 1800 k < L, the trimmed window as a chunk if
\* its trimmed length is above 20 and no chunk otherwise.
C12_FragmentKeptWindows ==
    (cpc = "done" /\ tier \in {"paragraph", "sentence"}) =>
        chunks = WholeOrKeptWindows(KeptFragments(tier, text))

\* paragraphs of 50 and 3000 characters: one chunk, then the windows
\* [0, 2000) and [1800, 3000)
C12_Witness ==
    /\ cpc = "done"
    /\ tier = "paragraph"
    /\ text = Rep("a", 50) \o << NL, NL >> \o Rep("a", 3000)
    /\ Len(chunks) = 3
    /\ chunks[1] = Rep("a", 50)
    /\ chunks[2] = SubSeq(Rep("a", 3000), 1, 2000)
    /\ chunks[3] = SubSeq(Rep("a", 3000), 1801, 3000)

\* ------------------------------------------------------------------------
\* Vocabulary of the chat properties
\* ------------------------------------------------------------------------
ChatAnswered == chatPc = "done" /\ chatResponse.status = 200

ChatThrew(op) == \E k \in 1..Len(chatLog) : chatLog[k].op = op /\ ~chatLog[k].ok

ChatCalled(op) == \E k \in 1..Len(chatLog) : chatLog[k].op = op

C14_QueryFailureMeansNoMatches ==
    ChatThrew("query") =>
        /\ chatPc \in {"generate", "done"}
        /\ chatPc = "done" =>
              /\ \E k \in 1..Len(chatLog) :
                    chatLog[k].op = "generate" /\ chatLog[k].context = ""
              /\ ~ChatThrew("generate") =>
                    /\ chatResponse.status = 200
                    /\ chatResponse.contextUsed = FALSE
                    /\ chatResponse.sources = << >>
                    /\ chatResponse.confidenceScore = 0

\* the query failed and the request was answered
C14_Witness ==
    /\ ChatThrew("query")
    /\ ChatAnswered
    /\ chatResponse.response = "Open the gradebook."

\* ------------------------------------------------------------------------
\* C15. When the embedding of the question fails, the request ends with an
\* error: neither the index query nor the generation is called, and the
\* response carries no answer.
\* ------------------------------------------------------------------------
C15_EmbeddingFailureAborts ==
    ChatThrew("embed") =>
        /\ chatPc = "done"
        /\ chatResponse.status = 500
        /\ chatResponse.error # ""
        /\ "response" \notin DOMAIN chatResponse
        /\ ~ChatCalled("query")
        /\ ~ChatCalled("generate")

\* the embedding failed
C15_Witness ==
    /\ ChatThrew("embed")
    /\ chatPc = "done"
    /\ Len(chatLog) = 1

\* ------------------------------------------------------------------------
\* C16. The sources of a chat answer are the matches of the index, one entry
\* per match and in the order of the index, and the context handed to the
\* generation renders the matches in that order.
\* ------------------------------------------------------------------------
\* the rendering of the first n matches, built from the last one backwards
RECURSIVE RenderedUpTo(_, _)
RenderedUpTo(ms, n) ==
    IF n = 0 THEN ""
    ELSE IF n = 1 THEN ContextEntry(ms[1])
    ELSE RenderedUpTo(ms, n - 1) \o "\n\n" \o ContextEntry(ms[n])

C16_SourcesInIndexOrder ==
    ChatAnswered =>
        /\ Len(chatResponse.sources) = Len(matches)
        /\ \A k \in 1..Len(matches) :
              /\ chatResponse.sources[k].id = matches[k].id
              /\ chatResponse.sources[k].score = OrZero(matches[k].score)
        /\ \E k \in 1..Len(chatLog) :
              /\ chatLog[k].op = "generate"
              /\ chatLog[k].context = RenderedUpTo(matches, Len(matches))

\* two matches, the lower score first: the sources keep that order
C16_Witness ==
    /\ ChatAnswered
    /\ Len(matches) = 2
    /\ OrZero(matches[1].score) < OrZero(matches[2].score)
    /\ chatResponse.sources[1].id = "f1-chunk-0"
    /\ chatResponse.sources[2].id = "f2-chunk-0"

\* ------------------------------------------------------------------------
\* Vocabulary of the analyze properties
\* ------------------------------------------------------------------------
\* the results of the URLs whose analysis ran to its end
Analysed == { n \in 1..Len(results) : results[n].success }

\* the generation of the URL in hand has just answered or thrown
JustGenerated(kinds) ==
    /\ Len(analyzeLog) > 0
    /\ analyzeLog[Len(analyzeLog)].op = "generate"
    /\ analyzeLog[Len(analyzeLog)].outcome \in kinds

\* no two issues of the list have the same key
DistinctKeys(is) ==
    \A a, b \in 1..Len(is) : IssueKey(is[a]) = IssueKey(is[b]) => a = b

\* ------------------------------------------------------------------------
\* C17. After the model's issues and the heuristic issues are combined, no
\* two unique issues share the key (current text or, without it, outdated
\* text; location), and the issue that survives for a key is the first issue
\* with that key in the combined list, with all its other fields.
\* ------------------------------------------------------------------------
C17_FirstOfEachKeySurvives ==
    /\ DistinctKeys(uniqueIssues)
    /\ \A n \in Analysed : DistinctKeys(results[n].issues)
    /\ \A k \in 1..Len(allIssues) :
          \E a \in 1..Len(uniqueIssues) :
             /\ IssueKey(uniqueIssues[a]) = IssueKey(allIssues[k])
             /\ \E f \in 1..k :
                   /\ uniqueIssues[a] = allIssues[f]
                   /\ \A m \in 1..(f - 1) :
                         IssueKey(allIssues[m]) # IssueKey(allIssues[k])
    /\ \A a \in 1..Len(uniqueIssues) :
          \E k \in 1..Len(allIssues) : allIssues[k] = uniqueIssues[a]

\* two issues with one key and different descriptions were combined and the
\* first of them is the one in the result
C17_Witness ==
    /\ analyzePc = "done"
    /\ \E a, b \in 1..Len(allIssues) :
          /\ a < b
          /\ IssueKey(allIssues[a]) = IssueKey(allIssues[b])
          /\ allIssues[a].description # allIssues[b].description
          /\ \A m \in 1..(a - 1) : IssueKey(allIssues[m]) # IssueKey(allIssues[a])
          /\ \E n \in Analysed :
                \E k \in 1..Len(results[n].issues) :
                   results[n].issues[k] = allIssues[a]

\* ------------------------------------------------------------------------
\* C18. The overall severity of an analysed page is 'high' if a unique issue
\* has severity high or priority immediate or high, or if there are more
\* than 5 unique issues; otherwise 'medium' if a unique issue has severity
\* medium or there are more than 2 unique issues; otherwise 'low'.
\* ------------------------------------------------------------------------
SeverityByUniqueCount(is) ==
    IF \/ \E k \in 1..Len(is) :
             is[k].severity = "high" \/ is[k].priority \in { "immediate", "high" }
       \/ Len(is) > HighRiskCount
    THEN "high"
    ELSE IF (\E k \in 1..Len(is) : is[k].severity = "medium")
               \/ Len(is) > MediumRiskCount
    THEN "medium"
    ELSE "low"

C18_SeverityByUniqueCount ==
    \A n \in Analysed :
        results[n].riskLevel = SeverityByUniqueCount(results[n].issues)

\* ------------------------------------------------------------------------
\* C19. The overall severity of an analysed page is never lower than the
\* severity of one of its unique issues, with low < medium < high.
\* ------------------------------------------------------------------------
Severities == { "low", "medium", "high" }

Rank(level) == CASE level = "low" -> 1 [] level = "medium" -> 2 [] level = "high" -> 3

C19_NeverBelowAnIssue ==
    \A n \in Analysed :
        /\ results[n].riskLevel \in Severities
        /\ \A k \in 1..Len(results[n].issues) :
              results[n].issues[k].severity \in Severities =>
                  Rank(results[n].riskLevel) >= Rank(results[n].issues[k].severity)

\* a page whose issues are of low and of high severity is rated high, and a
\* page whose worst issue is of medium severity is rated medium
C19_Witness ==
    /\ analyzePc = "done"
    /\ Len(results) = 1
    /\ results[1].success
    /\ \/ /\ results[1].riskLevel = "high"
          /\ \E a, b \in 1..Len(results[1].issues) :
                /\ results[1].issues[a].severity = "low"
                /\ results[1].issues[b].severity = "high"
                /\ results[1].issues[b].priority = "medium"
       \/ /\ results[1].riskLevel = "medium"
          /\ Len(results[1].risks) = 1
          /\ results[1].issues[1].severity = "medium"

\* ------------------------------------------------------------------------
\* C20. When the generation throws or its response holds no JSON that
\* parses, the result of the page holds the heuristic issues and nothing
\* else, and its overall severity is 'high' if there is a heuristic issue
\* and 'low' if there is none.
\* ------------------------------------------------------------------------
\* the issue is the heuristic issue h, as the fallback reports it
IsHeuristic(issue, h) ==
    /\ issue.outdatedText = h.term
    /\ issue.location = h.location
    /\ issue.severity = h.severity

OnlyHeuristicIssues(is) ==
    /\ \A k \in 1..Len(is) :
          \E h \in 1..Len(outdatedIssues) : IsHeuristic(is[k], outdatedIssues[h])
    /\ \A h \in 1..Len(outdatedIssues) :
          \E k \in 1..Len(is) : IsHeuristic(is[k], outdatedIssues[h])

C20_FallbackSeverity ==
    JustGenerated({ "throws", "noJson" }) =>
        LET r == results[Len(results)]
        IN  /\ r.success
            /\ OnlyHeuristicIssues(r.issues)
            /\ r.riskLevel = IF Len(outdatedIssues) > 0 THEN "high" ELSE "low"

\* ------------------------------------------------------------------------
\* C21. When the deadline expires during a sync pass, the caller is told
\* the outcome of every file that was completed before: the entries
\* recorded so far are in what the caller receives.
\* ------------------------------------------------------------------------
C21_CompletedOutcomesReported ==
    (pc = "idle" /\ response.kind = "timeout") =>
        response.processedFiles = processedFiles

\* ------------------------------------------------------------------------
\* C22. A preview returns only chunks of matches whose metadata names the
\* file asked for, in ascending order of the chunk index of the metadata,
\* and writes nothing to the index; when no match is of the file it answers
\* success = false with an empty chunk list and not with an error status.
\* ------------------------------------------------------------------------
PreviewAnswered == previewPc = "done" /\ previewResponse.status = 200

C22_PreviewFilteredAndSorted ==
    /\ [](PreviewAnswered =>
            /\ Len(previewResponse.chunks) = Len(filteredMatches)
            /\ previewResponse.chunkCount = Len(filteredMatches)
            /\ previewResponse.success = (Len(filteredMatches) > 0)
            /\ \A k \in 1..Len(filteredMatches) :
                  /\ previewResponse.chunks[k].id = filteredMatches[k].id
                  /\ previewFileId \in { filteredMatches[k].metadata.fileId,
                                         filteredMatches[k].metadata.file_id }
            /\ \A k \in 1..(Len(filteredMatches) - 1) :
                  SortIndex(filteredMatches[k]) <= SortIndex(filteredMatches[k + 1]))
    /\ [][index' = index]_vars

\* two matches of the file came back in descending order of their chunk
\* index and are returned in ascending order, from an index that holds
\* vectors
C22_Witness ==
    /\ PreviewAnswered
    /\ index # {}
    /\ Len(previewResponse.chunks) = 2
    /\ previewResponse.chunks[1].id = "v2"
    /\ previewResponse.chunks[2].id = "v1"
    /\ previewResponse.chunks[1].chunkIndex < previewResponse.chunks[2].chunkIndex

\* ------------------------------------------------------------------------
\* C23. A file whose download is zero bytes is recorded as an empty file and
\* is neither extracted, embedded nor upserted; a file whose text is empty or
\* whitespace is recorded as "no text extracted" and is neither embedded nor
\* upserted; a file whose text gives no chunk is recorded as "no valid
\* chunks"; and in each case the files after it are processed.
\* ------------------------------------------------------------------------
OpsFor(f) == {log[k].op : k \in CallsFor(log, f)}

Returned(op, f) == \E k \in CallsFor(log, f) : log[k].op = op /\ log[k].ok

\* the one entry of file f has no chunks and one of the given messages
ZeroOutcome(f, errors) ==
    /\ Cardinality(EntriesFor(processedFiles, f)) = 1
    /\ \A k \in EntriesFor(processedFiles, f) :
          /\ processedFiles[k].chunks = 0
          /\ processedFiles[k].error \in errors

\* the loop went on after file f: every later file was fetched, or is still
\* to come
LoopWentOn(f) ==
    /\ pc = "idle" => response.kind = "report"
    /\ \A g \in (f + 1)..Len(files) :
          "fetch" \in OpsFor(g) \/ (pc # "idle" /\ i <= g)

EmptyBytes(f) == Returned("fetch", f) /\ files[f].empty

EmptyText(f) == Returned("extract", f) /\ Len(Trim(files[f].text)) = 0

NoChunks(f) ==
    /\ Returned("extract", f)
    /\ Len(Trim(files[f].text)) > 0
    /\ ChunkText(files[f].text) = << >>

C23_EarlyExitsAreOutcomes ==
    \A f \in 1..Len(files) :
        /\ EmptyBytes(f) =>
              /\ ZeroOutcome(f, {"File is empty (0 bytes)", "Empty file"})
              /\ OpsFor(f) = {"fetch"}
              /\ LoopWentOn(f)
        /\ EmptyText(f) =>
              /\ ZeroOutcome(f, {"No text extracted"})
              /\ OpsFor(f) = {"fetch", "extract"}
              /\ LoopWentOn(f)
        /\ NoChunks(f) =>
              /\ ZeroOutcome(f, {"No valid chunks created", "No valid chunks"})
              /\ OpsFor(f) = {"fetch", "extract"}
              /\ LoopWentOn(f)

\* ------------------------------------------------------------------------
\* C24. Files are processed one at a time in listing order: no call for a
\* file is made before the outcome of the file before it is recorded, the
\* outcome of a file is recorded only when its pipeline is over (no call for
\* the file follows it), and the entries are in listing order.
\* ------------------------------------------------------------------------
InListingOrder(pf) ==
    \A k \in 1..Len(pf) : \A m \in (k + 1)..Len(pf) : pf[k].file < pf[m].file

C24_OneFileAtATime ==
    /\ [](/\ \A g \in 2..Len(files) :
                CallsFor(log, g) # {} => EntriesFor(processedFiles, g - 1) # {}
          /\ InListingOrder(processedFiles)
          /\ InListingOrder(response.processedFiles))
    /\ [][\A f \in 1..Len(files) :
             EntriesFor(processedFiles, f) # {} =>
                 CallsFor(log', f) = CallsFor(log, f)]_vars

\* ------------------------------------------------------------------------
\* C25. Every text whose trimmed length exceeds the minimum fragment length
\* gives at least one chunk: there are zero chunks only for a text that is
\* empty, whitespace only or not longer than the minimum once trimmed.
\* ------------------------------------------------------------------------
C25_TextAboveMinimumGivesAChunk ==
    cpc = "done" =>
        (chunks = << >>) = (Len(Trim(text)) <= MIN_CHUNK_LENGTH)

\* ------------------------------------------------------------------------
\* C26. The route and the script give the same vector id to the same file
\* id and chunk index: a pass through one entry point after a pass through
\* the other over the same unchanged file writes the same ids, so it
\* replaces the vectors of the file and the index holds no more of them.
\* ------------------------------------------------------------------------
C26_SameIdFromEitherEntryPoint ==
    \A p \in 1..(Len(passes) - 1) :
        passes[p].entry # passes[p + 1].entry =>
            \A f \in passes[p].clean \cap passes[p + 1].clean :
                /\ passes[p + 1].written[f] = passes[p].written[f]
                /\ passes[p + 1].indexed[f] <= passes[p].indexed[f]

\* ------------------------------------------------------------------------
\* C27. Every entry of a file with chunks = 0 carries a non-empty error
\* message, also when the file had chunks and every one of them failed to
\* embed or to upsert.
\* ------------------------------------------------------------------------
C27_ZeroChunksCarriesError ==
    \A k \in 1..Len(processedFiles) :
        processedFiles[k].chunks = 0 =>
            processedFiles[k].error \notin {Undefined, Null, ""}

\* ------------------------------------------------------------------------
\* C28. In the route, upsert is called at most once per file, only after
\* every chunk of the file was embedded, with exactly one vector per chunk,
\* of indices 0..n-1.  As stated: hence for each file either all n vectors
\* are submitted and the reported count is n, or none is submitted and the
\* reported count is 0.
\* ------------------------------------------------------------------------
UpsertCalls(f) == Calls("upsert", f, -1, TRUE) \cup Calls("upsert", f, -1, FALSE)

\* upsert is called at most once for file f, after an embedding of each of
\* its chunks has returned, with the ids of the chunks 0..n-1
OneUpsertOfAllChunks(f) ==
    /\ Cardinality(UpsertCalls(f)) <= 1
    /\ \A at \in UpsertCalls(f) :
          /\ \A c \in ChunkIndicesOf(f) :
                \E k \in Calls("embed", f, c, TRUE) : k < at
          /\ log[at].ids = {RouteVectorId(files[f], c) : c \in ChunkIndicesOf(f)}
          /\ Cardinality(log[at].ids) = Cardinality(ChunkIndicesOf(f))

\* the vectors handed to upsert: one per chunk, in order, indices 0..n-1
OneVectorPerChunk ==
    (entry = "route" /\ pc = "upsert") =>
        /\ Len(vectors) = Len(chunks)
        /\ Len(vectors) > 0
        /\ \A k \in 1..Len(vectors) :
              /\ vectors[k].chunkIndex = k - 1
              /\ vectors[k].text = chunks[k]

C28_AllSubmittedOrNone ==
    entry = "route" =>
        /\ OneVectorPerChunk
        /\ \A f \in 1..Len(files) :
              /\ OneUpsertOfAllChunks(f)
              /\ \A k \in EntriesFor(processedFiles, f) :
                    \/ /\ UpsertCalls(f) # {}
                       /\ processedFiles[k].chunks = Cardinality(ChunkIndicesOf(f))
                    \/ /\ UpsertCalls(f) = {}
                       /\ processedFiles[k].chunks = 0

\* C28, amended: ... hence for each file either all n vectors are
\* submitted, and the reported count is n if the upsert returns and 0 if it
\* throws, or none is submitted and the reported count is 0.
C28_AllSubmittedOrNoneAmended ==
    entry = "route" =>
        /\ OneVectorPerChunk
        /\ \A f \in 1..Len(files) :
              /\ OneUpsertOfAllChunks(f)
              /\ \A k \in EntriesFor(processedFiles, f) :
                    \/ /\ Calls("upsert", f, -1, TRUE) # {}
                       /\ processedFiles[k].chunks = Cardinality(ChunkIndicesOf(f))
                    \/ /\ Calls("upsert", f, -1, FALSE) # {}
                       /\ processedFiles[k].chunks = 0
                    \/ /\ UpsertCalls(f) = {}
                       /\ processedFiles[k].chunks = 0

\* a two-chunk file was upserted in one call and is recorded with 2 chunks
C28_Witness ==
    /\ entry = "route"
    /\ \E f \in 1..Len(files) :
          /\ Calls("upsert", f, -1, TRUE) # {}
          /\ Cardinality(ChunkIndicesOf(f)) = 2
          /\ \E k \in EntriesFor(processedFiles, f) : processedFiles[k].chunks = 2

\* ------------------------------------------------------------------------
\* C29. An accepted analyze request is answered with exactly one result per
\* URL, in the order of the request.  A URL whose page cannot be fetched or
\* whose analysis throws has a result with success = false, riskLevel
\* "high" and no issues, and the URLs after it are still analysed.  A
\* knowledge-base query that fails leaves the context empty and the URL is
\* still analysed.
\* ------------------------------------------------------------------------
AnalyzeCalled(op, n) ==
    \E k \in 1..Len(analyzeLog) : analyzeLog[k].op = op /\ analyzeLog[k].url = n

\* the turn of URL n ended without an analysis
FailedTurn(n) ==
    \E k \in 1..Len(analyzeLog) :
        /\ analyzeLog[k].url = n
        /\ \/ analyzeLog[k].op = "fetch" /\ analyzeLog[k].outcome = "null"
           \/ analyzeLog[k].op = "generate" /\ analyzeLog[k].outcome = "notIterable"

QueryThrew(n) ==
    \E k \in 1..Len(analyzeLog) :
        /\ analyzeLog[k].url = n
        /\ analyzeLog[k].op = "query"
        /\ analyzeLog[k].outcome = "throws"

AnalyzeAnswered == analyzePc = "done" /\ analyzeResponse.status = 200

C29_OneResultPerUrl ==
    /\ Len(results) <= Len(urls)
    /\ \A n \in 1..Len(results) : results[n].url = urls[n]
    /\ AnalyzeAnswered =>
          /\ analyzeResponse.results = results
          /\ Len(results) = Len(urls)
          /\ \A n \in 1..Len(urls) : AnalyzeCalled("fetch", n)
    /\ \A n \in 1..Len(urls) :
          /\ FailedTurn(n) =>
                /\ Len(results) >= n
                /\ ~results[n].success
                /\ results[n].riskLevel = "high"
                /\ results[n].issues = << >>
                /\ analyzePc = "done" => AnalyzeAnswered
          /\ QueryThrew(n) =>
                /\ (n = u /\ analyzePc = "generate") => ultraContext = ""
                /\ Len(results) >= n =>
                      /\ AnalyzeCalled("generate", n)
                      /\ results[n].success = ~FailedTurn(n)

\* the page of the first URL could not be fetched; the second URL was
\* analysed although its knowledge-base query failed
C29_Witness ==
    /\ AnalyzeAnswered
    /\ Len(urls) = 2
    /\ FailedTurn(1)
    /\ QueryThrew(2)
    /\ results[2].success

\* ------------------------------------------------------------------------
\* C30. The exchanges of one conversation update a single entry of the
\* stored history: after one or more successful submits with no new
\* conversation, load or delete in between, the stored list has exactly one
\* entry of the conversation, and that entry holds all its messages.
\* ------------------------------------------------------------------------
\* the last submit was answered and saved, and no click came in between
SavedUninterrupted ==
    /\ written # { }
    /\ inFlight = << >>
    /\ messages # << >>
    /\ messages[Len(messages)] = AssistantMessage

C30_OneEntryPerConversation ==
    SavedUninterrupted =>
        /\ Cardinality({k \in 1..Len(stored) : stored[k].id \in written}) = 1
        /\ \A k \in 1..Len(stored) :
              stored[k].id \in written => stored[k].messages = messages

====
